---- MODULE Spec2Model ----
(***************************************************************************)
(* Verification model of the audio graph (src/src/dsp/graph.rs) and of the *)
(* process schedule (src/src/dsp/processor.rs).                            *)
(*                                                                         *)
(* Indices stored in edges, orderings and results are 0-based, as in the   *)
(* Rust code; a Vec is a TLA+ sequence, so element i of a Vec v is v[i+1]. *)
(* An Option<usize> is the index, or -1 for None.                          *)
(*                                                                         *)
(* The processors of the schedule are trait objects whose output the       *)
(* schedule never inspects: the output a processor writes for one voice in *)
(* one block is an opaque sample <<node, block, voice>>, and a buffer slot  *)
(* holds a sum of such samples, kept as a bag.                             *)
(***************************************************************************)
EXTENDS Integers, Sequences, FiniteSets, Bags, TLC

\* ------------------------------------------------------------------ bounds

\* Largest number of nodes the host inserts into one graph.
MaxNodes == 3

\* Largest graph the host builds, counted in nodes plus edges.
MaxSize == 7

\* Largest number of processors the host pushes onto one schedule.
MaxScheduleNodes == 3

\* Longest successor list the host hands to push.
MaxFanOut == 2

\* Largest number of voices the host adds; also the longest slice it hands to
\* process.
MaxVoices == 3

\* Number of blocks the host has processed.
MaxBlocks == 2

\* Largest run of the schedule, counted in nodes pushed, successors handed to
\* push, voices added and blocks processed.
MaxScheduleSize == 6

\* Longest ramp the host asks of a smoother, in samples
MaxRampLen == 2

\* Most samples the host ticks a smoother by in one call of tick
MaxTickLen == 2

\* Most samples the host ticks a smoother by over its life
MaxTicks == 3

\* Most calls of set_target and set_val_instantly on a smoother
MaxSets == 2

\* samples the host feeds a filter between two resets
MaxSamples == 4

\* most calls of a setter, of update_smoothers and of process on a filter
MaxCalls == 2

\* longest slice the caller hands to permute
MaxPermute == 3

\* Largest number of processors the host pushes onto a schedule it fills with
\* voices.
MaxFullNodes == 2

\* Number of calls of add_voice on a schedule the host fills with voices: one
\* more than the buffers hold.
MaxAdds == 17

\* ------------------------------------------------------------- Vec helpers

\* Iterator::position(|e| e == x): 0-based index of the first match, -1 = None
SeqPos(s, x) ==
    IF \E k \in 1..Len(s) : s[k] = x
    THEN (CHOOSE k \in 1..Len(s) : s[k] = x /\ \A m \in 1..(k - 1) : s[m] # x) - 1
    ELSE -1

\* Vec::remove(pos), pos 0-based
VecRemove(s, pos) == SubSeq(s, 1, pos) \o SubSeq(s, pos + 2, Len(s))

\* Iterator::collect(): the Vec of the elements of f, a function on 1..n
\* (the concatenation makes TLC build the Vec once, not on every access)
Vec(f) == f \o <<>>

\* Vec::insert(0, x)
VecInsertFront(s, x) == <<x>> \o s

\* slice::swap(a, b), a and b 0-based
SliceSwap(s, a, b) == [s EXCEPT ![a + 1] = s[b + 1], ![b + 1] = s[a + 1]]

VecLast(s) == s[Len(s)]

VecPop(s) == SubSeq(s, 1, Len(s) - 1)

\* find_remove: removes the first element equal to object (unwrap: it is there)
find_remove(vec, object) == VecRemove(vec, SeqPos(vec, object))

\* has_duplicates: some element equals an earlier one
has_duplicates(slice) == \E a, b \in 1..Len(slice) : a < b /\ slice[a] = slice[b]

\* ------------------------------------------------------------------ permute

\* the `while i != indices[current]` loop of permute, entered with `current`
RECURSIVE permute_cycle(_, _, _)
permute_cycle(st, i, current) ==
    IF st.indices[current + 1] = i
    THEN [st EXCEPT !.indices[current + 1] = current]
    ELSE LET next == st.indices[current + 1]
         IN  permute_cycle([slice   |-> SliceSwap(st.slice, current, next),
                            indices |-> [st.indices EXCEPT ![current + 1] = current]],
                           i, next)

\* the `for i in 0..indices.len()` loop of permute, from i on
RECURSIVE permute_loop(_, _)
permute_loop(st, i) ==
    IF i >= Len(st.indices) THEN st ELSE permute_loop(permute_cycle(st, i, i), i + 1)

\* permute with a gather replaced by the identity: the payloads stay in place
permute_keeps_order(slice, indices) ==
    [panic |-> FALSE, slice |-> slice, indices |-> Vec([k \in 1..Len(indices) |-> k - 1])]

\* permute(slice, indices): the three asserts, then the cycle-following loops.
\* The result holds both slices as the call leaves them.
permute(slice, indices) ==
    IF \/ Len(slice) # Len(indices)
       \/ has_duplicates(indices)
       \/ ~(\A k \in 1..Len(indices) : indices[k] < Len(indices))
    THEN [panic |-> TRUE, slice |-> slice, indices |-> indices]
    ELSE LET st == permute_loop([slice |-> slice, indices |-> indices], 0)
         IN  [panic |-> FALSE, slice |-> st.slice, indices |-> st.indices]

\* -------------------------------------------------------------------- Edge

Normal(i) == [kind |-> "Normal", index |-> i]

Feedback(i) == [kind |-> "Feedback", index |-> i]

\* Edge::set_as_feedback that forgets to demote
set_as_feedback_noop(e) == e

\* Edge::set_as_feedback (it panics on a Feedback edge: connect only calls it
\* on the Normal edge it has just pushed)
set_as_feedback(e) == IF e.kind = "Normal" THEN Feedback(e.index) ELSE e

\* Edge::index_if_normal that lets every edge through
index_if_normal_any(e) == e.index

\* Edge::index_if_normal: Some(i) for Normal(i), None (-1) for Feedback
index_if_normal(e) == IF e.kind = "Normal" THEN e.index ELSE -1

\* position that overlooks Feedback edges
position_normal_only(edges, index) ==
    SeqPos(Vec([k \in 1..Len(edges) |-> index_if_normal(edges[k])]), index)

\* position(edges, index): first edge of either kind that points at index
position(edges, index) == SeqPos(Vec([k \in 1..Len(edges) |-> edges[k].index]), index)

contains(edges, index) == position(edges, index) # -1

\* --------------------------------------------------------- topological_sort

\* incoming_edges[edge]: the nodes that hold `edge`, pushed in node order
incoming_of(nodes, edge) ==
    LET F[i \in 0..Len(nodes)] ==
            IF i = 0 THEN <<>>
            ELSE F[i - 1] \o [k \in 1..Len(SelectSeq(nodes[i], LAMBDA x : x = edge)) |-> i - 1]
    IN  F[Len(nodes)]

\* `while let Some(next) = nodes[i].pop()`
RECURSIVE sort_drain(_, _)
sort_drain(st, i) ==
    IF st.nodes[i + 1] = <<>> THEN st
    ELSE LET next  == VecLast(st.nodes[i + 1])
             edges == find_remove(st.incoming_edges[next + 1], i)
         IN  sort_drain([st EXCEPT !.nodes[i + 1] = VecPop(@),
                                   !.incoming_edges[next + 1] = edges,
                                   !.independent_nodes =
                                       IF edges = <<>> THEN Append(@, next) ELSE @],
                        i)

\* `while let Some(i) = independent_nodes.pop()`
RECURSIVE sort_loop(_)
sort_loop(st) ==
    IF st.independent_nodes = <<>> THEN st
    ELSE LET i == VecLast(st.independent_nodes)
         IN  sort_loop(sort_drain([st EXCEPT !.independent_nodes = VecPop(@),
                                             !.new_ordering = Append(@, i)],
                                  i))

\* topological_sort that emits the nodes as they are stored
topological_sort_stored(nodes) ==
    [some |-> TRUE, ordering |-> Vec([k \in 1..Len(nodes) |-> k - 1])]

\* topological_sort(nodes): Kahn's algorithm; nodes[i] are the targets of node i.
\* some = FALSE is None.
topological_sort(nodes) ==
    LET incoming == Vec([e \in 1..Len(nodes) |-> incoming_of(nodes, e - 1)])
        roots    == SelectSeq(Vec([k \in 1..Len(nodes) |-> k - 1]),
                              LAMBDA i : incoming[i + 1] = <<>>)
        st       == sort_loop([nodes |-> nodes, incoming_edges |-> incoming,
                               independent_nodes |-> roots, new_ordering |-> <<>>])
    IN  IF \A e \in 1..Len(nodes) : st.incoming_edges[e] = <<>>
        THEN [some |-> TRUE, ordering |-> st.new_ordering]
        ELSE [some |-> FALSE, ordering |-> <<>>]

\* --------------------------------------------------------------- AudioGraph

VARIABLES
    ordered_nodes,   \* AudioGraph::ordered_nodes: Vec of [id, edges]; the payload
                     \* `data` is never read by the graph and moves with its node
    result           \* the last call and what it returned

graph_vars == <<ordered_nodes, result>>

VARIABLES
    schedule,    \* processor.rs AudioGraph: [nodes, edges]; a node is
                 \* [processor, sample_buffer]
    voices,      \* the host's list of the active voices, by norm_freq, in slot order
    added,       \* number of calls of add_voice so far
    inputs,      \* the slice the host hands to process
    cursor,      \* the index the loop of process runs next, -1 outside process
    block,       \* number of calls of process so far
    delivered,   \* per node and slot, what the edges added since the node last ran
    call,        \* the latest call of Processor::process by a node inside process
                 \* and its argument
    panicked     \* a panic has unwound the caller

schedule_vars == <<schedule, voices, added, inputs, cursor, block, delivered, call, panicked>>

VARIABLES
    smoother,    \* smoothing.rs: the smoother the host drives, by its fields
    ramp         \* what the host has asked of it: the latest call that set it (op)
                 \* with its target and length n, the current value at that call
                 \* (start), the samples ticked since (ticked) and whether one at
                 \* a time (single), the calls that set it (sets) and the samples
                 \* ticked over its life (samples)

smoother_vars == <<smoother, ramp>>

VARIABLES
    filter,      \* filter.rs, filter/one_pole.rs, filter/svf.rs: the filter the host
                 \* drives, by its fields
    fed          \* what the host has done with it: the latest call (op) with the
                 \* filter as it was before the call (before) and the value the
                 \* call returned (out), the samples ticked since the filter was
                 \* built or last reset (since), whether that reset cleared
                 \* state that was not zero (cleared), the arguments (args) of
                 \* the latest setter with the calls it made on the smoothers
                 \* (aim), and the number of setters, updates and samples so
                 \* far (calls)

filter_vars == <<filter, fed>>

VARIABLES
    applied      \* the latest call of a function of math.rs or dsp.rs: its name
                 \* (fn), its arguments (args) and what it returned (ret)

math_vars == <<applied>>

vars == <<graph_vars, schedule_vars, smoother_vars, filter_vars, math_vars>>

\* AudioGraphNode::new
AudioGraphNode(id) == [id |-> id, edges |-> <<>>]

\* edges_mut().for_each(|edge| *edge = f[*edge]): the function f applied to the
\* index of every edge of every node
edges_mut_for_each(nodes, f) ==
    Vec([n \in 1..Len(nodes) |->
        [nodes[n] EXCEPT !.edges =
            Vec([k \in 1..Len(nodes[n].edges) |->
                [kind |-> nodes[n].edges[k].kind, index |-> f[nodes[n].edges[k].index]]])]])

\* top_level_insert that leaves the stored edge indices as they were
top_level_insert_stale(nodes, id) == VecInsertFront(nodes, AudioGraphNode(id))

\* top_level_insert that appends the node (it then needs no index shift)
top_level_insert_append(nodes, id) == Append(nodes, AudioGraphNode(id))

\* top_level_insert: every stored edge index moves up by one, the node goes to index 0
top_level_insert(nodes, id) ==
    VecInsertFront(edges_mut_for_each(nodes, [edge \in 0..(Len(nodes) - 1) |-> edge + 1]),
                   AudioGraphNode(id))

\* try_connect_indexes: [ok, nodes]
try_connect_indexes(nodes, from, to) ==
    LET no_duplicates == ~contains(nodes[from + 1].edges, to)
    IN  [ok    |-> no_duplicates,
         nodes |-> IF no_duplicates
                   THEN [nodes EXCEPT ![from + 1].edges = Append(@, Normal(to))]
                   ELSE nodes]

\* reorder that rewrites each edge to indices[edge] instead of its position
reorder_forward(nodes, indices) ==
    permute(edges_mut_for_each(nodes, [edge \in 0..(Len(nodes) - 1) |-> indices[edge + 1]]),
            indices).slice

\* reorder(indices): every edge index becomes its position in indices, then
\* the nodes are permuted
reorder(nodes, indices) ==
    permute(edges_mut_for_each(nodes, [edge \in 0..(Len(nodes) - 1) |-> SeqPos(indices, edge)]),
            indices).slice

\* find_node: position of the first node with the id
find_node(nodes, node_id) == SeqPos(Vec([n \in 1..Len(nodes) |-> nodes[n].id]), node_id)

\* the argument connect hands to topological_sort: all non-feedback edges
normal_edges(nodes) ==
    Vec([n \in 1..Len(nodes) |->
        SelectSeq(Vec([k \in 1..Len(nodes[n].edges) |-> index_if_normal(nodes[n].edges[k])]),
                  LAMBDA i : i # -1)])

NoResult == [some |-> FALSE, pair |-> <<0, 0>>, has_perm |-> FALSE, perm |-> <<>>]

\* connect(from_id, to_id): the graph it leaves and the value it returns.
\* some = FALSE is None; has_perm = FALSE is Some((pair, None)).
connect(nodes, from_id, to_id) ==
    LET from_index == find_node(nodes, from_id)
        to_index   == find_node(nodes, to_id)
        pushed     == try_connect_indexes(nodes, from_index, to_index)
        sorted     == topological_sort(normal_edges(pushed.nodes))
    IN  IF ~pushed.ok
        THEN [nodes |-> nodes, ret |-> NoResult]
        ELSE IF sorted.some
        THEN [nodes |-> reorder(pushed.nodes, sorted.ordering),
              ret   |-> [some |-> TRUE, pair |-> <<from_index, to_index>>,
                         has_perm |-> TRUE, perm |-> sorted.ordering]]
        ELSE [nodes |-> [pushed.nodes EXCEPT ![from_index + 1].edges =
                            [@ EXCEPT ![Len(@)] = set_as_feedback(@)]],
              ret   |-> [some |-> TRUE, pair |-> <<from_index, to_index>>,
                         has_perm |-> FALSE, perm |-> <<>>]]

NodeIds(nodes) == {nodes[n].id : n \in 1..Len(nodes)}

EdgeCount(nodes) ==
    LET F[n \in 0..Len(nodes)] == IF n = 0 THEN 0 ELSE F[n - 1] + Len(nodes[n].edges)
    IN  F[Len(nodes)]

\* The host inserts a node under a fresh id. Ids are opaque keys that the graph
\* only compares for equality, so the k-th node inserted is named k.
TopLevelInsert ==
    LET id == Len(ordered_nodes) + 1
    IN  /\ Len(ordered_nodes) < MaxNodes
        /\ ordered_nodes' = top_level_insert(ordered_nodes, id)
        /\ result' = [op |-> "top_level_insert", from_id |-> id, to_id |-> id,
                      ret |-> NoResult]
        /\ UNCHANGED <<schedule_vars, smoother_vars, filter_vars, math_vars>>

\* the host connects two nodes it has inserted
Connect ==
    \E from_id, to_id \in NodeIds(ordered_nodes) :
        \E r \in {connect(ordered_nodes, from_id, to_id)} :
            /\ Len(r.nodes) + EdgeCount(r.nodes) <= MaxSize
            /\ ordered_nodes' = r.nodes
            /\ result' = [op |-> "connect", from_id |-> from_id, to_id |-> to_id,
                          ret |-> r.ret]
            /\ UNCHANGED <<schedule_vars, smoother_vars, filter_vars, math_vars>>

GraphNext == TopLevelInsert \/ Connect

\* ------------------------------------------------------------------- f32
\* One lane of Simd<f32, N>, [neg, m, e], worth (-1)^neg * m * 2^e:
\*   a normal number     2^23 <= m < 2^24, -149 <= e <= 104
\*   a subnormal number  0 < m < 2^23, e = -149
\*   a zero              m = 0, e = 0
\*   an infinity         m = 0, e = 105
\*   a NaN               m = 1, e = 105 (its sign bit is not recorded: the
\*                       default NaN is negative on x86 and positive on ARM)
\* Every operation gives the exact result rounded to nearest, ties to even, as
\* the hardware does.

\* f32::MANTISSA_DIGITS - 1
MANTISSA_BITS == 23

Limb == 2^(MANTISSA_BITS + 1)

\* number of bits of x > 0
RECURSIVE BitLen(_)
BitLen(x) == IF x < 2 THEN x ELSE 1 + BitLen(x \div 2)

f32_zero == [neg |-> FALSE, m |-> 0, e |-> 0]

\* the exponent of the unit of the subnormal numbers, 2^-149
EMin == 1 - 127 - MANTISSA_BITS

\* the exponent of the first power of two that f32 cannot hold, 2^128 = 2^23 * 2^105
NotFinite == 128 - MANTISSA_BITS

f32_inf(neg) == [neg |-> neg, m |-> 0, e |-> NotFinite]

f32_nan == [neg |-> FALSE, m |-> 1, e |-> NotFinite]

is_nan(a) == a.e = NotFinite /\ a.m # 0

is_inf(a) == a.e = NotFinite /\ a.m = 0

is_finite(a) == a.e # NotFinite

is_zero(a) == a.e # NotFinite /\ a.m = 0

\* the exact number (-1)^neg * (hi * 2^24 + lo) * 2^e, lo < 2^24, hi < 2^27
Wide(neg, hi, lo, e) == [neg |-> neg, hi |-> hi, lo |-> lo, e |-> e]

WideBits(w) == IF w.hi > 0 THEN MANTISSA_BITS + 1 + BitLen(w.hi) ELSE BitLen(w.lo)

\* w as the same number in units 2^(e - s), for 0 <= s <= 24
WideShl1(w, s) ==
    LET keep == 2^(MANTISSA_BITS + 1 - s)
    IN  Wide(w.neg, w.hi * 2^s + (w.lo \div keep), (w.lo % keep) * 2^s, w.e - s)

RECURSIVE WideShl(_, _)
WideShl(w, s) ==
    IF s <= MANTISSA_BITS + 1 THEN WideShl1(w, s)
    ELSE WideShl(WideShl1(w, MANTISSA_BITS + 1), s - (MANTISSA_BITS + 1))

Jam(x, lost) == IF lost /\ x % 2 = 0 THEN x + 1 ELSE x

\* w in units 2^(e + s), for 0 <= s < 24: the bits shifted out are remembered
\* in the lowest bit (sticky)
WideShr1(w, s) ==
    LET lo == (w.lo \div 2^s) + (w.hi % 2^s) * 2^(MANTISSA_BITS + 1 - s)
    IN  Wide(w.neg, w.hi \div 2^s, Jam(lo, w.lo % 2^s # 0), w.e + s)

WideShr(w, s) ==
    IF s < MANTISSA_BITS + 1 THEN WideShr1(w, s)
    ELSE IF s < 2 * (MANTISSA_BITS + 1)
    THEN LET down == Wide(w.neg, w.hi \div Limb, Jam(w.hi % Limb, w.lo # 0),
                          w.e + MANTISSA_BITS + 1)
         IN  WideShr1(down, s - (MANTISSA_BITS + 1))
    ELSE Wide(w.neg, 0, 1, w.e + s)

\* the f32 with sign, mantissa m <= 2^24 and exponent e >= EMin
f32_pack(neg, m, e) ==
    IF m = 0 THEN [neg |-> neg, m |-> 0, e |-> 0]
    ELSE IF m = Limb
    THEN IF e + 1 >= NotFinite THEN f32_inf(neg)
         ELSE [neg |-> neg, m |-> Limb \div 2, e |-> e + 1]
    ELSE IF e >= NotFinite THEN f32_inf(neg)
    ELSE [neg |-> neg, m |-> m, e |-> e]

\* rounding of an exact number to f32: nearest, ties to even, gradual underflow,
\* overflow to an infinity
f32_round(w) ==
    IF w.hi = 0 /\ w.lo = 0 THEN f32_zero
    ELSE LET \* v is the number in quarters of the unit 2^e it is rounded to
             nearest(v, e) ==
                 f32_pack(w.neg,
                          IF v % 4 > 2 \/ (v % 4 = 2 /\ (v \div 4) % 2 = 1)
                          THEN (v \div 4) + 1 ELSE v \div 4,
                          e)
             quarters(two) == two.hi * Limb + two.lo
             \* d bits are dropped
             dropping(d) ==
                 IF d <= 0 THEN f32_pack(w.neg, w.lo * 2^(-d), w.e + d)
                 ELSE nearest(quarters(IF d = 1 THEN WideShl1(w, 1) ELSE WideShr(w, d - 2)),
                              w.e + d)
             fitting(fit) == dropping(IF fit > EMin - w.e THEN fit ELSE EMin - w.e)
         IN  fitting(WideBits(w) - (MANTISSA_BITS + 1))

f32_wide(a) == Wide(a.neg, 0, a.m, a.e)

\* the f32 worth m * 2^e for an integer |m| < 2^24
f32_of(m, e) == f32_round(Wide(m < 0, 0, IF m < 0 THEN -m ELSE m, e))

f32_neg(a) == IF is_nan(a) THEN a ELSE [a EXCEPT !.neg = ~a.neg]

\* the exact product of two f32
WideMul(a, b) ==
    LET half == 2^12
        a1   == a.m \div half
        a0   == a.m % half
        b1   == b.m \div half
        b0   == b.m % half
        mid  == a1 * b0 + a0 * b1
        low  == a0 * b0 + (mid % half) * half
    IN  Wide(a.neg # b.neg, a1 * b1 + (mid \div half) + (low \div Limb), low % Limb, a.e + b.e)

\* |x| - |y| for two numbers in the same units with |x| >= |y|
WideDiff(x, y) ==
    IF x.lo >= y.lo THEN Wide(x.neg, x.hi - y.hi, x.lo - y.lo, x.e)
    ELSE Wide(x.neg, x.hi - y.hi - 1, x.lo + Limb - y.lo, x.e)

\* x + y for two numbers of at most 48 bits each: the one that reaches higher
\* is put at the top of a 50-bit window, the other is aligned to it, the bits
\* it loses below the window kept as a sticky bit
RECURSIVE WideAdd(_, _)
WideAdd(x, y) ==
    IF y.hi = 0 /\ y.lo = 0 THEN x
    ELSE IF x.hi = 0 /\ x.lo = 0 THEN y
    ELSE IF x.e + WideBits(x) < y.e + WideBits(y) THEN WideAdd(y, x)
    ELSE LET sum(X, Y) ==
                 IF X.neg = Y.neg
                 THEN Wide(X.neg, X.hi + Y.hi + ((X.lo + Y.lo) \div Limb),
                           (X.lo + Y.lo) % Limb, X.e)
                 ELSE IF X.hi > Y.hi \/ (X.hi = Y.hi /\ X.lo >= Y.lo)
                      THEN WideDiff(X, [Y EXCEPT !.e = X.e])
                      ELSE WideDiff([Y EXCEPT !.e = X.e], X)
             aligned(s) == IF s >= 0 THEN WideShl(y, s) ELSE WideShr(y, -s)
             window(X) == sum(X, aligned(y.e - X.e))
         IN  window(WideShl(x, 50 - WideBits(x)))

\* a + b
f32_add(a, b) ==
    IF is_nan(a) \/ is_nan(b) THEN f32_nan
    ELSE IF is_inf(a) THEN IF is_inf(b) /\ a.neg # b.neg THEN f32_nan ELSE a
    ELSE IF is_inf(b) THEN b
    ELSE IF is_zero(a) /\ is_zero(b) THEN [f32_zero EXCEPT !.neg = a.neg /\ b.neg]
    ELSE IF is_zero(a) THEN b
    ELSE IF is_zero(b) THEN a
    ELSE f32_round(WideAdd(f32_wide(a), f32_wide(b)))

\* a - b
f32_sub(a, b) == f32_add(a, f32_neg(b))

\* a * b
f32_mul(a, b) ==
    IF is_nan(a) \/ is_nan(b) THEN f32_nan
    ELSE IF is_inf(a) \/ is_inf(b)
    THEN IF is_zero(a) \/ is_zero(b) THEN f32_nan ELSE f32_inf(a.neg # b.neg)
    ELSE IF is_zero(a) \/ is_zero(b) THEN [f32_zero EXCEPT !.neg = a.neg # b.neg]
    ELSE f32_round(WideMul(a, b))

\* StdFloat::mul_add: a * b + c with one rounding
mul_add(a, b, c) ==
    IF is_finite(a) /\ is_finite(b) /\ is_finite(c) /\ ~is_zero(a) /\ ~is_zero(b)
    THEN f32_round(WideAdd(WideMul(a, b), f32_wide(c)))
    ELSE f32_add(f32_mul(a, b), c)

\* long division of the mantissas: n more quotient bits below those of q, the
\* remainder kept as a sticky bit
RECURSIVE DivBits(_, _, _, _)
DivBits(q, r, d, n) ==
    IF n = 0 THEN Jam(q, r # 0)
    ELSE IF 2 * r >= d THEN DivBits(2 * q + 1, 2 * r - d, d, n - 1)
    ELSE DivBits(2 * q, 2 * r, d, n - 1)

\* a subnormal number with its mantissa brought up to 24 bits
f32_normal(a) ==
    LET s == MANTISSA_BITS + 1 - BitLen(a.m) IN [neg |-> a.neg, m |-> a.m * 2^s, e |-> a.e - s]

\* a / b
f32_div(a, b) ==
    IF is_nan(a) \/ is_nan(b) THEN f32_nan
    ELSE IF is_inf(a) THEN IF is_inf(b) THEN f32_nan ELSE f32_inf(a.neg # b.neg)
    ELSE IF is_inf(b) THEN [f32_zero EXCEPT !.neg = a.neg # b.neg]
    ELSE IF is_zero(b) THEN IF is_zero(a) THEN f32_nan ELSE f32_inf(a.neg # b.neg)
    ELSE IF is_zero(a) THEN [f32_zero EXCEPT !.neg = a.neg # b.neg]
    ELSE LET rounded(q, e) == f32_round(Wide(a.neg # b.neg, q \div Limb, q % Limb, e))
             quotient(x, y) ==
                 rounded(DivBits(x.m \div y.m, x.m % y.m, y.m, 26), x.e - y.e - 26)
         IN  quotient(f32_normal(a), f32_normal(b))

\* a < b; nothing is below or above a NaN, and the two zeros are equal
f32_lt(a, b) ==
    /\ ~is_nan(a) /\ ~is_nan(b)
    /\ a # b
    /\ ~(is_zero(a) /\ is_zero(b))
    /\ IF is_inf(a) THEN a.neg
       ELSE IF is_inf(b) THEN ~b.neg
       ELSE LET below_zero(d) == (d.hi # 0 \/ d.lo # 0) /\ d.neg
            IN  below_zero(WideAdd(f32_wide(a), f32_wide(f32_neg(b))))

\* a <= b
f32_le(a, b) == ~is_nan(a) /\ ~is_nan(b) /\ ~f32_lt(b, a)

\* the square root of n = m * 2^28 one bit at a time, from bit pair j down: the
\* root so far and what is left of n above it
RECURSIVE SqrtBits(_, _, _, _)
SqrtBits(m, j, rem, root) ==
    IF j < 0 THEN [root |-> root, rem |-> rem]
    ELSE LET pair  == IF j >= 14 THEN (m \div 4^(j - 14)) % 4 ELSE 0
             left  == 4 * rem + pair
             trial == 4 * root + 1
         IN  IF left >= trial THEN SqrtBits(m, j - 1, left - trial, 2 * root + 1)
             ELSE SqrtBits(m, j - 1, left, 2 * root)

\* StdFloat::sqrt
f32_sqrt(a) ==
    IF is_nan(a) THEN a
    ELSE IF is_zero(a) THEN a
    ELSE IF a.neg THEN f32_nan
    ELSE IF is_inf(a) THEN a
    ELSE LET rounded(r, e) ==
                 f32_round(Wide(FALSE, r.root \div Limb, Jam(r.root % Limb, r.rem # 0),
                                (e \div 2) - 14))
             \* the exponent is made even
             root(x) ==
                 IF x.e % 2 = 0 THEN rounded(SqrtBits(x.m, 26, 0, 0), x.e)
                 ELSE rounded(SqrtBits(2 * x.m, 26, 0, 0), x.e - 1)
         IN  root(f32_normal(a))

\* |a|
f32_abs(a) == IF is_nan(a) THEN a ELSE [a EXCEPT !.neg = FALSE]

\* SimdOrd::simd_min, lane by lane
simd_min(a, b) == IF f32_lt(b, a) THEN b ELSE a

\* the f32 worth (-1)^neg * n for an integer 0 <= n < 2^24
f32_int(neg, n) == IF n = 0 THEN [f32_zero EXCEPT !.neg = neg] ELSE f32_round(Wide(neg, 0, n, 0))

\* f32::round_ties_even
round_ties_even(a) ==
    IF ~is_finite(a) \/ a.e >= 0 THEN a
    ELSE IF -a.e > MANTISSA_BITS + 2 THEN [f32_zero EXCEPT !.neg = a.neg]
    ELSE LET q    == a.m \div 2^(-a.e)
             r    == a.m % 2^(-a.e)
             half == 2^(-a.e - 1)
         IN  f32_int(a.neg, IF r > half \/ (r = half /\ q % 2 = 1) THEN q + 1 ELSE q)

\* ------------------------------------------------------------------ math
\* src/math.rs on one lane. The three fields of the bit pattern of an f32 stand
\* for the u32: sign * 2^31 + exponent * 2^23 + fraction.

\* 1f32.to_bits() = 127 * 2^23: the exponent field of 1.0
ONE_BITS == [sign |-> 0, exponent |-> 127, fraction |-> 0]

\* Simd::to_bits: the patterns the lane can hold (a NaN made by an operation
\* has either sign, after the machine)
to_bits(a) ==
    IF is_nan(a) THEN {[sign |-> s, exponent |-> 255, fraction |-> 2^(MANTISSA_BITS - 1)] : s \in {0, 1}}
    ELSE LET s == IF a.neg THEN 1 ELSE 0
         IN  IF is_inf(a) THEN {[sign |-> s, exponent |-> 255, fraction |-> 0]}
             ELSE IF a.m < 2^MANTISSA_BITS THEN {[sign |-> s, exponent |-> 0, fraction |-> a.m]}
             ELSE {[sign |-> s, exponent |-> a.e + MANTISSA_BITS + ONE_BITS.exponent,
                    fraction |-> a.m - 2^MANTISSA_BITS]}

\* Simd::from_bits
from_bits(bits) ==
    IF bits.exponent = 255 THEN IF bits.fraction = 0 THEN f32_inf(bits.sign = 1) ELSE f32_nan
    ELSE IF bits.exponent = 0 THEN f32_pack(bits.sign = 1, bits.fraction, EMin)
    ELSE [neg |-> bits.sign = 1, m |-> 2^MANTISSA_BITS + bits.fraction,
          e |-> bits.exponent - ONE_BITS.exponent - MANTISSA_BITS]

\* i32::MIN and i32::MAX
I32_MIN == -(2^30) - 2^30

I32_MAX == 2^30 - 1 + 2^30

\* to_int_unchecked: the integer a rounded f32 is worth; outside i32, and for
\* what is not finite, the behaviour is undefined and any i32 may come out
\* (x86 gives i32::MIN, ARM saturates)
to_int_unchecked(r) ==
    IF is_finite(r) /\ (is_zero(r) \/ r.e + MANTISSA_BITS + 1 <= 31)
    THEN LET n == IF r.e < 0 THEN r.m \div 2^(-r.e) ELSE r.m * 2^r.e
         IN  {IF r.neg THEN -n ELSE n}
    ELSE IF r = [neg |-> TRUE, m |-> 2^MANTISSA_BITS, e |-> 31 - MANTISSA_BITS] THEN {I32_MIN}
    ELSE {I32_MIN, 0, I32_MAX}

\* (i.cast() << MANTISSA_BITS) + ONE_BITS in u32: the shift drops all but the
\* low 9 bits of i, the sum carries into the sign bit
fexp2i(i) ==
    LET field == ((i % 2^9) + ONE_BITS.exponent) % 2^9
    IN  from_bits([sign |-> field \div 2^8, exponent |-> field % 2^8, fraction |-> 0])

exp2(v) ==
    LET a1 == f32_of(11629080, -24)    \* LN_2
        a2 == f32_of(16121328, -26)    \* 0.240_226_5
        a3 == f32_of(14899271, -28)    \* 0.055_504_11
        a4 == f32_of(10327387, -30)    \* 0.009_618_129
        a5 == f32_of(11453439, -33)    \* 0.001_333_355_8
        y(x) == mul_add(x, mul_add(x, mul_add(x, mul_add(x, a5, a4), a3), a2), a1)
        \* int.mul_add(x * y, int)
        scaled(int, x) == mul_add(int, f32_mul(x, y(x)), int)
        split(rounded) ==
            {scaled(fexp2i(i), f32_sub(v, rounded)) : i \in to_int_unchecked(rounded)}
    IN  split(round_ties_even(v))

\* ((x.to_bits() - ONE_BITS) >> MANTISSA_BITS).cast(): the subtraction wraps in
\* u32 and the shift is logical, so what is left is the 9 bits above the fraction
ilog2f_bits(bits) == (bits.sign * 2^8 + bits.exponent + 2^9 - ONE_BITS.exponent) % 2^9

ilog2f(x) == {ilog2f_bits(bits) : bits \in to_bits(x)}

log2_bits(bits) ==
    LET a == f32_of(-11041156, -22)    \* -2.632_416_7
        b == f32_of(10485760, -21)     \* 5.
        c == f32_of(-13981013, -22)    \* -3.333_333_3
        d == f32_of(11983726, -23)     \* 1.428_571_5
        e == f32_of(-11184811, -25)    \* -0.333_333_34
        f == f32_of(8659208, -28)      \* 0.032_258_064
        log_exponent == f32_of(ilog2f_bits(bits), 0)
        y(x) == mul_add(x, mul_add(x, mul_add(x, mul_add(x, mul_add(x, f, e), d), c), b), a)
    IN  f32_add(log_exponent,
                y(from_bits([sign |-> 0, exponent |-> ONE_BITS.exponent,
                             fraction |-> bits.fraction])))

log2(v) == {log2_bits(bits) : bits \in to_bits(v)}

pow(base, exp) == UNION {exp2(f32_mul(l, exp)) : l \in log2(base)}

\* tan_half_x: the rational approximation of tan(x / 2)
tan_half_x(x) ==
    LET n5 == f32_of(9089878, -37)
        n3 == f32_neg(f32_of(14913081, -29))
        n1 == f32_of(1, 0)
        d4 == f32_of(8521761, -32)
        d2 == f32_neg(f32_of(14913081, -26))
        d0 == f32_of(2, 0)
        den(x2) == mul_add(x2, mul_add(x2, d4, d2), d0)
        num(x2) == mul_add(x2, mul_add(x2, n5, n3), n1)
        \* num * xden, xden = x / den
        ratio(x2) == f32_mul(num(x2), f32_div(x, den(x2)))
    IN  ratio(f32_mul(x, x))

\* ------------------------------------------------------------------- dsp
\* cubic_interp, on f32: the products and sums in the order Rust parses them
cubic_interp(y0, y1, y2, y3, mu) ==
    LET c == f32_sub(y2, y0)
        \* a * mu * mu2 + b * mu2 * c * mu + y1
        sum(a, b, mu2) ==
            f32_add(f32_add(f32_mul(f32_mul(a, mu), mu2),
                            f32_mul(f32_mul(f32_mul(b, mu2), c), mu)),
                    y1)
        from(a) == sum(a, f32_sub(f32_sub(y0, y1), a), f32_mul(mu, mu))
    IN  from(f32_add(f32_sub(f32_sub(y3, y2), y0), y1))

\* -------------------------------------------------------------- smoothing
\* src/smoothing.rs on one lane. exp2 and pow have outcomes rather than a value
\* (see to_int_unchecked and to_bits), so every method gives the set of states
\* it can leave the smoother in.

\* <Simd<f32, N> as Zero>::ZERO and <Simd<f32, N> as One>::ONE
ZERO == f32_zero

ONE == f32_of(1, 0)

LogSmoother_default == [kind |-> "LogSmoother", factor |-> ONE, value |-> ONE]

LinearSmoother_default == [kind |-> "LinearSmoother", increment |-> ZERO, value |-> ZERO]

ExpSmoother_default == [kind |-> "ExpSmoother", alpha |-> ZERO, target |-> ZERO, current |-> ZERO]

Bounded_default(inner) == [kind |-> "Bounded", t |-> ZERO, smoother |-> inner]

LogSmoother_set_target(self, target, t) ==
    {[self EXCEPT !.factor = factor] :
        factor \in UNION {exp2(f32_div(l, t)) : l \in log2(f32_div(target, self.value))}}

LogSmoother_set_target_recip(self, target, t_recip) ==
    {[self EXCEPT !.factor = factor] : factor \in pow(f32_div(target, self.value), t_recip)}

LogSmoother_set_val_instantly(self, target) ==
    {[self EXCEPT !.value = target, !.factor = ONE]}

LogSmoother_tick(self, dt) ==
    {[self EXCEPT !.value = f32_mul(self.value, p)] : p \in pow(self.factor, dt)}

LogSmoother_tick1(self) == {[self EXCEPT !.value = f32_mul(self.value, self.factor)]}

LinearSmoother_set_target(self, target, t) ==
    {[self EXCEPT !.increment = f32_div(f32_sub(target, self.value), t)]}

LinearSmoother_set_val_instantly(self, target) ==
    {[self EXCEPT !.increment = ZERO, !.value = target]}

LinearSmoother_tick(self, t) ==
    {[self EXCEPT !.value = f32_add(self.value, f32_mul(self.increment, t))]}

LinearSmoother_tick1(self) == {[self EXCEPT !.value = f32_add(self.value, self.increment)]}

ExpSmoother_set_target(self, target, t) ==
    LET w == f32_of(-10449882, -20)    \* -9.965_784_285
    IN  {[self EXCEPT !.target = target, !.alpha = alpha] : alpha \in exp2(f32_div(w, t))}

ExpSmoother_set_val_instantly(self, target) ==
    {[self EXCEPT !.target = target, !.current = target]}

ExpSmoother_tick(self, t) ==
    {[self EXCEPT !.current = mul_add(p, f32_sub(self.target, self.current), self.current)] :
        p \in pow(self.alpha, t)}

ExpSmoother_tick1(self) ==
    {[self EXCEPT !.current = mul_add(self.alpha, f32_sub(self.target, self.current), self.current)]}

\* the methods of the trait Smoother, dispatched on the implementing type;
\* those of Bounded<T> forward to the smoother they wrap
RECURSIVE set_target(_, _, _)
set_target(self, target, t) ==
    CASE self.kind = "LogSmoother"    -> LogSmoother_set_target(self, target, t)
      [] self.kind = "LinearSmoother" -> LinearSmoother_set_target(self, target, t)
      [] self.kind = "ExpSmoother"    -> ExpSmoother_set_target(self, target, t)
      [] self.kind = "Bounded"        ->
            {[self EXCEPT !.smoother = inner, !.t = t] :
                inner \in set_target(self.smoother, target, t)}

RECURSIVE set_val_instantly(_, _)
set_val_instantly(self, target) ==
    CASE self.kind = "LogSmoother"    -> LogSmoother_set_val_instantly(self, target)
      [] self.kind = "LinearSmoother" -> LinearSmoother_set_val_instantly(self, target)
      [] self.kind = "ExpSmoother"    -> ExpSmoother_set_val_instantly(self, target)
      [] self.kind = "Bounded"        ->
            {[self EXCEPT !.t = ZERO, !.smoother = inner] :
                inner \in set_val_instantly(self.smoother, target)}

RECURSIVE tick(_, _)
tick(self, t) ==
    CASE self.kind = "LogSmoother"    -> LogSmoother_tick(self, t)
      [] self.kind = "LinearSmoother" -> LinearSmoother_tick(self, t)
      [] self.kind = "ExpSmoother"    -> ExpSmoother_tick(self, t)
      [] self.kind = "Bounded"        ->
            LET clamped == simd_min(t, self.t)
            IN  {[self EXCEPT !.smoother = inner, !.t = f32_sub(self.t, clamped)] :
                    inner \in tick(self.smoother, clamped)}

tick1(self) ==
    CASE self.kind = "LogSmoother"    -> LogSmoother_tick1(self)
      [] self.kind = "LinearSmoother" -> LinearSmoother_tick1(self)
      [] self.kind = "ExpSmoother"    -> ExpSmoother_tick1(self)
      [] self.kind = "Bounded"        ->
            {[self EXCEPT !.smoother = inner] : inner \in tick(self.smoother, ONE)}

RECURSIVE get_current(_)
get_current(self) ==
    CASE self.kind = "LogSmoother"    -> self.value
      [] self.kind = "LinearSmoother" -> self.value
      [] self.kind = "ExpSmoother"    -> self.current
      [] self.kind = "Bounded"        -> get_current(self.smoother)

\* ---------------------------------------------------------------- filter
\* One lane of each Simd<f32, N>: the operations of the filters are lane-wise.

\* #[derive(Default)] of Integrator
Integrator_default == [kind |-> "Integrator", s |-> f32_zero]

\* Integrator::tick, were the sample added to the state once only
Integrator_tick_once(self, sample) ==
    LET ticked(output) == [self |-> [self EXCEPT !.s = output], output |-> output]
    IN  ticked(f32_add(sample, self.s))

\* Integrator::tick: the integrator after the call (self) and what it returns (output)
Integrator_tick(self, sample) ==
    LET ticked(output) ==
            [self |-> [self EXCEPT !.s = f32_add(output, sample)], output |-> output]
    IN  ticked(f32_add(sample, self.s))

\* Integrator::reset, were the state kept
Integrator_reset_keeps(self) == self

\* Integrator::reset
Integrator_reset(self) == [self EXCEPT !.s = f32_zero]

\* Integrator::get_current
Integrator_get_current(self) == self.s

\* one_pole.rs, svf.rs call the smoothers by the names set_instantly,
\* set_increment(target, inc) and tick(): they are Smoother::set_val_instantly,
\* set_target_recip(target, t_recip) and tick1 of smoothing.rs. set_target of
\* svf.rs takes the number of samples as a usize.

\* #[derive(Default)] of OnePole
OnePole_default ==
    [kind |-> "OnePole", g1 |-> LogSmoother_default, k |-> LogSmoother_default,
     s |-> Integrator_default, lp |-> f32_zero, x |-> f32_zero]

\* OnePole::reset
OnePole_reset(self) == [self EXCEPT !.s = Integrator_reset(self.s)]

\* OnePole::g
OnePole_g(w_c) == tan_half_x(w_c)

\* OnePole::g1
OnePole_g1(g) == f32_div(g, f32_add(f32_of(1, 0), g))

\* The setters of OnePole only call the two smoothers: a setter is modelled by
\* the calls it makes, [g1, k, smoothed, inc] for the targets it hands to self.g1
\* and to self.k, by set_instantly or (smoothed) by set_increment with inc.

\* OnePole::set_values
OnePole_set_values(g, k) ==
    [g1 |-> OnePole_g1(g), k |-> k, smoothed |-> FALSE, inc |-> f32_zero]

\* OnePole::set_params
OnePole_set_params(w_c, gain) == OnePole_set_values(OnePole_g(w_c), gain)

\* OnePole::set_params_low_shelving
OnePole_set_params_low_shelving(w_c, gain) ==
    [g1 |-> f32_div(OnePole_g(w_c), f32_sqrt(gain)), k |-> gain,
     smoothed |-> FALSE, inc |-> f32_zero]

\* OnePole::set_params_high_shelving
OnePole_set_params_high_shelving(w_c, gain) ==
    [g1 |-> f32_mul(OnePole_g(w_c), f32_sqrt(gain)), k |-> gain,
     smoothed |-> FALSE, inc |-> f32_zero]

\* OnePole::set_values_smoothed
OnePole_set_values_smoothed(g, k, inc) ==
    [g1 |-> OnePole_g1(g), k |-> k, smoothed |-> TRUE, inc |-> inc]

\* OnePole::set_params_smoothed
OnePole_set_params_smoothed(w_c, gain, inc) ==
    OnePole_set_values_smoothed(OnePole_g(w_c), gain, inc)

\* OnePole::set_params_low_shelving_smoothed
OnePole_set_params_low_shelving_smoothed(w_c, gain, inc) ==
    OnePole_set_values_smoothed(f32_div(OnePole_g(w_c), f32_sqrt(gain)), gain, inc)

\* OnePole::set_params_high_shelving_smoothed
OnePole_set_params_high_shelving_smoothed(w_c, gain, inc) ==
    OnePole_set_values_smoothed(f32_mul(OnePole_g(w_c), f32_sqrt(gain)), gain, inc)

\* OnePole::get_update_function, get_smoothing_update_function
OnePole_get_update_function(mode, smoothed, w_c, gain, inc) ==
    IF smoothed
    THEN CASE mode = "LSH" -> OnePole_set_params_low_shelving_smoothed(w_c, gain, inc)
           [] mode = "HSH" -> OnePole_set_params_high_shelving_smoothed(w_c, gain, inc)
           [] OTHER -> OnePole_set_params_smoothed(w_c, gain, inc)
    ELSE CASE mode = "HSH" -> OnePole_set_params_high_shelving(w_c, gain)
           [] mode = "LSH" -> OnePole_set_params_low_shelving(w_c, gain)
           [] OTHER -> OnePole_set_params(w_c, gain)

\* the calls of a setter, made on the smoothers of self
OnePole_set(self, calls) ==
    IF calls.smoothed
    THEN {[self EXCEPT !.g1 = g1, !.k = k] :
            g1 \in LogSmoother_set_target_recip(self.g1, calls.g1, calls.inc),
            k \in LogSmoother_set_target_recip(self.k, calls.k, calls.inc)}
    ELSE {[self EXCEPT !.g1 = g1, !.k = k] :
            g1 \in LogSmoother_set_val_instantly(self.g1, calls.g1),
            k \in LogSmoother_set_val_instantly(self.k, calls.k)}

\* OnePole::update_smoothers
OnePole_update_smoothers(self) ==
    {[self EXCEPT !.g1 = g1, !.k = k] :
        g1 \in LogSmoother_tick1(self.g1), k \in LogSmoother_tick1(self.k)}

\* OnePole::process
OnePole_process(self, x) ==
    LET s  == Integrator_get_current(self.s)
        g1 == self.g1.value
        \* self.lp = self.s.tick(..)
        stored(lp) == [self EXCEPT !.s = lp.self, !.lp = lp.output, !.x = x]
    IN  stored(Integrator_tick(self.s, f32_mul(f32_sub(x, s), g1)))

\* OnePole::get_highpass
OnePole_get_highpass(self) == f32_sub(self.x, self.lp)

\* OnePole::get_output_function and the getter it selects
OnePole_get_output_function(self, mode) ==
    CASE mode = "LP"  -> self.lp
      [] mode = "AP"  -> f32_sub(self.lp, OnePole_get_highpass(self))
      [] mode = "HP"  -> OnePole_get_highpass(self)
      [] mode = "LSH" -> f32_add(f32_mul(self.k.value, self.lp), OnePole_get_highpass(self))
      [] mode = "HSH" -> mul_add(self.k.value, OnePole_get_highpass(self), self.lp)

\* #[derive(Default)] of SVF
SVF_default ==
    [kind |-> "SVF", g |-> LogSmoother_default, r |-> LogSmoother_default,
     k |-> LogSmoother_default, s |-> <<Integrator_default, Integrator_default>>,
     x |-> f32_zero, hp |-> f32_zero, bp |-> f32_zero, lp |-> f32_zero]

\* SVF::reset, were only the first integrator zeroed
SVF_reset_first(self) == [self EXCEPT !.s = <<Integrator_reset(self.s[1]), self.s[2]>>]

\* SVF::reset
SVF_reset(self) == [self EXCEPT !.s = <<Integrator_reset(self.s[1]), Integrator_reset(self.s[2])>>]

\* SVF::set_values
SVF_set_values(self, g, res, gain) ==
    {[self EXCEPT !.k = k, !.g = gs, !.r = r] :
        k \in LogSmoother_set_val_instantly(self.k, gain),
        gs \in LogSmoother_set_val_instantly(self.g, g),
        r \in LogSmoother_set_val_instantly(self.r, res)}

\* SVF::set_values_smoothed
SVF_set_values_smoothed(self, g, res, gain, num_samples) ==
    {[self EXCEPT !.k = k, !.g = gs, !.r = r] :
        k \in LogSmoother_set_target(self.k, gain, f32_of(num_samples, 0)),
        gs \in LogSmoother_set_target(self.g, g, f32_of(num_samples, 0)),
        r \in LogSmoother_set_target(self.r, res, f32_of(num_samples, 0))}

\* SVF::update_all_smoothers
SVF_update_all_smoothers(self) ==
    {[self EXCEPT !.k = k, !.r = r, !.g = g] :
        k \in LogSmoother_tick1(self.k), r \in LogSmoother_tick1(self.r),
        g \in LogSmoother_tick1(self.g)}

\* SVF::process; Integrator::process of the call is Integrator::tick
SVF_process(self, sample) ==
    LET g  == self.g.value
        s1 == Integrator_get_current(self.s[1])
        s2 == Integrator_get_current(self.s[2])
        stored(hp, bp, lp) ==
            [self EXCEPT !.hp = hp, !.bp = bp.output, !.lp = lp.output,
                         !.s = <<bp.self, lp.self>>, !.x = sample]
        \* self.lp = self.s[1].process(self.bp * g)
        low(hp, bp) == stored(hp, bp, Integrator_tick(self.s[2], f32_mul(bp.output, g)))
        \* self.bp = self.s[0].process(self.hp * g)
        band(hp) == low(hp, Integrator_tick(self.s[1], f32_mul(hp, g)))
        \* self.hp = g1.mul_add(-s1, sample - s2) / g1.mul_add(g, 1)
        high(g1) == band(f32_div(mul_add(g1, f32_neg(s1), f32_sub(sample, s2)),
                                 mul_add(g1, g, f32_of(1, 0))))
    IN  high(f32_add(self.r.value, g))

\* SVF::get_unit_bandpass
SVF_get_unit_bandpass(self) == f32_mul(self.r.value, self.bp)

\* SVF::get_output_function and the getter it selects
SVF_get_output_function(self, mode) ==
    LET m2  == self.k.value
        bp1 == SVF_get_unit_bandpass(self)
    IN  CASE mode = "LP"  -> self.lp
          [] mode = "BP"  -> self.bp
          [] mode = "BP1" -> bp1
          [] mode = "HP"  -> self.hp
          [] mode = "AP"  -> mul_add(self.r.value, f32_add(self.bp, self.bp), f32_neg(self.x))
          [] mode = "NCH" -> mul_add(self.bp, f32_neg(self.r.value), self.x)
          [] mode = "LSH" -> mul_add(m2, mul_add(m2, self.lp, bp1), self.hp)
          [] mode = "BSH" -> mul_add(bp1, m2, f32_sub(self.x, bp1))
          [] mode = "HSH" -> mul_add(m2, mul_add(m2, self.hp, bp1), self.lp)

\* ----------------------------------------------------------- process schedule

\* capacity of AudioGraphNode::sample_buffer
Capacity == 16

ZERO_SAMPLE == EmptyBag

\* ArrayVec::swap_remove(idx) / Vec::swap_remove(idx) for idx in range
swap_remove(vec, idx) ==
    SubSeq([vec EXCEPT ![idx + 1] = vec[Len(vec)]], 1, Len(vec) - 1)

\* a processor the host pushes: it knows its voices, by norm_freq
Processor(name) == [name |-> name, voices |-> <<>>]

\* Processor::add_voice
processor_add_voice(processor, norm_freq) ==
    [processor EXCEPT !.voices = Append(@, norm_freq)]

\* Processor::remove_voice
processor_remove_voice(processor, voice_idx) ==
    IF voice_idx < Len(processor.voices)
    THEN [processor EXCEPT !.voices = swap_remove(@, voice_idx)]
    ELSE processor

\* Processor::process of a pushed processor: it leaves in each slot its output
\* for that voice in this block, a sample named by <<processor, block, voice>>
processor_process(processor, blk, buffer) ==
    Vec([k \in 1..Len(buffer) |->
            SetToBag({<<processor.name, blk,
                        IF k <= Len(processor.voices) THEN processor.voices[k] ELSE 0>>})])

\* From<Box<dyn Processor>> for AudioGraphNode
from_processor(processor) == [processor |-> processor, sample_buffer |-> <<>>]

\* AudioGraph::push
push(sched, processor, successors) ==
    [nodes |-> Append(sched.nodes, from_processor(processor)),
     edges |-> Append(sched.edges, successors)]

\* the loop of add_voice from node n on; ArrayVec::push panics on a full buffer
RECURSIVE add_voice_loop(_, _, _)
add_voice_loop(nodes, n, norm_freq) ==
    IF n > Len(nodes) THEN [panic |-> FALSE, nodes |-> nodes]
    ELSE IF Len(nodes[n].sample_buffer) >= Capacity THEN [panic |-> TRUE, nodes |-> nodes]
    ELSE add_voice_loop(
            [nodes EXCEPT ![n] =
                [processor     |-> processor_add_voice(@.processor, norm_freq),
                 sample_buffer |-> Append(@.sample_buffer, ZERO_SAMPLE)]],
            n + 1, norm_freq)

add_voice(sched, norm_freq) ==
    LET r == add_voice_loop(sched.nodes, 1, norm_freq)
    IN  [panic |-> r.panic, sched |-> [sched EXCEPT !.nodes = r.nodes]]

\* the loop of remove_voice from node n on; swap_remove panics out of range
RECURSIVE remove_voice_loop(_, _, _)
remove_voice_loop(nodes, n, voice_idx) ==
    IF n > Len(nodes) THEN [panic |-> FALSE, nodes |-> nodes]
    ELSE IF voice_idx >= Len(nodes[n].sample_buffer) THEN [panic |-> TRUE, nodes |-> nodes]
    ELSE remove_voice_loop(
            [nodes EXCEPT ![n] =
                [processor     |-> processor_remove_voice(@.processor, voice_idx),
                 sample_buffer |-> swap_remove(@.sample_buffer, voice_idx)]],
            n + 1, voice_idx)

remove_voice(sched, voice_idx) ==
    LET r == remove_voice_loop(sched.nodes, 1, voice_idx)
    IN  [panic |-> r.panic, sched |-> [sched EXCEPT !.nodes = r.nodes]]

output_to_buffer_overwrite(node, ins) ==
    Vec([k \in 1..Len(ins) |->
            IF k <= Len(node.sample_buffer) THEN node.sample_buffer[k] ELSE ins[k]])

\* AudioGraphNode::output_to_buffer: zip stops at the shorter of the two
output_to_buffer(node, ins) ==
    Vec([k \in 1..Len(ins) |->
            IF k <= Len(node.sample_buffer) THEN ins[k] (+) node.sample_buffer[k]
            ELSE ins[k]])

\* `for k in 0..self.nodes[i].sample_buffer.len()` for one successor j: the
\* slots of `from` are added to those of `into`; indexing `into` out of range
\* panics after the slots before it are done
add_samples_none(into, from) == [panic |-> FALSE, buffer |-> into]

add_samples(into, from) ==
    [panic  |-> Len(from) > Len(into),
     buffer |-> Vec([k \in 1..Len(into) |->
                        IF k <= Len(from) THEN into[k] (+) from[k] ELSE into[k]])]

\* `for &j in &self.edges[i]` from the s-th successor on; st = [panic, nodes, delivered].
\* nodes[j] is indexed inside the loop over k only: an empty buffer of node i
\* indexes nothing, a successor out of range panics otherwise
RECURSIVE fan_out(_, _, _, _)
fan_out(st, successors, s, i) ==
    IF st.panic \/ s > Len(successors) THEN st
    ELSE LET j    == successors[s]
             from == st.nodes[i + 1].sample_buffer
         IN  IF from = <<>>
             THEN fan_out(st, successors, s + 1, i)
             ELSE IF j >= Len(st.nodes)
             THEN [st EXCEPT !.panic = TRUE]
             ELSE LET sum == add_samples(st.nodes[j + 1].sample_buffer, from)
                      got == add_samples(st.delivered[j + 1], from)
                  IN  fan_out([panic     |-> sum.panic,
                               nodes     |-> [st.nodes EXCEPT ![j + 1].sample_buffer = sum.buffer],
                               delivered |-> [st.delivered EXCEPT ![j + 1] = got.buffer]],
                              successors, s + 1, i)

process_node_late(sched, got, ins, i, blk) ==
    LET node   == sched.nodes[i + 1]
        output == processor_process(node.processor, blk, node.sample_buffer)
        fresh  == [got EXCEPT ![i + 1] = Vec([k \in 1..Len(@) |-> ZERO_SAMPLE])]
        st     == fan_out([panic |-> FALSE, nodes |-> sched.nodes, delivered |-> fresh],
                          sched.edges[i + 1], 1, i)
        ran    == [st.nodes EXCEPT ![i + 1].sample_buffer = output]
    IN  [panic     |-> st.panic,
         nodes     |-> ran,
         delivered |-> st.delivered,
         inputs    |-> IF sched.edges[i + 1] = <<>>
                       THEN output_to_buffer(ran[i + 1], ins) ELSE ins,
         call      |-> [node |-> i, block |-> blk, buffer |-> node.sample_buffer,
                        inbound |-> got[i + 1]]]

\* one iteration of the loop of process, for node i in block blk:
\* [panic, nodes, delivered, inputs, call]
process_node(sched, got, ins, i, blk) ==
    LET node   == sched.nodes[i + 1]
        output == processor_process(node.processor, blk, node.sample_buffer)
        ran    == [sched.nodes EXCEPT ![i + 1].sample_buffer = output]
        fresh  == [got EXCEPT ![i + 1] = Vec([k \in 1..Len(@) |-> ZERO_SAMPLE])]
        st     == fan_out([panic |-> FALSE, nodes |-> ran, delivered |-> fresh],
                          sched.edges[i + 1], 1, i)
    IN  [panic     |-> st.panic,
         nodes     |-> st.nodes,
         delivered |-> st.delivered,
         inputs    |-> IF sched.edges[i + 1] = <<>>
                       THEN output_to_buffer(ran[i + 1], ins) ELSE ins,
         call      |-> [node |-> i, block |-> blk, buffer |-> node.sample_buffer,
                        inbound |-> got[i + 1]]]

NoCall == [node |-> -1, block |-> 0, buffer |-> <<>>, inbound |-> <<>>]

NoSmoother == [kind |-> "none"]

NoFilter == [kind |-> "none"]

\* both graphs as Default::default() builds them, before any call, and no
\* smoother yet
Init ==
    /\ ordered_nodes = <<>>
    /\ result = [op |-> "default", from_id |-> 0, to_id |-> 0, ret |-> NoResult]
    /\ schedule = [nodes |-> <<>>, edges |-> <<>>]
    /\ voices = <<>>
    /\ added = 0
    /\ inputs = <<>>
    /\ cursor = -1
    /\ block = 0
    /\ delivered = <<>>
    /\ call = NoCall
    /\ panicked = FALSE
    /\ smoother = NoSmoother
    /\ ramp = [op |-> "none", target |-> f32_zero, n |-> 0, start |-> f32_zero, ticked |-> 0,
               single |-> TRUE, sets |-> 0, samples |-> 0]
    /\ filter = NoFilter
    /\ fed = [op |-> "none", before |-> NoFilter, out |-> f32_zero, since |-> <<>>,
              cleared |-> FALSE, args |-> <<>>, aim |-> <<>>, calls |-> 0]
    /\ applied = [fn |-> "none", args |-> <<>>, ret |-> <<>>]

Idle == cursor = -1 /\ ~panicked

\* total number of successors in the fan-out lists
FanOutCount(edges) ==
    LET F[n \in 0..Len(edges)] == IF n = 0 THEN 0 ELSE F[n - 1] + Len(edges[n])
    IN  F[Len(edges)]

\* what the host has asked of the schedule so far
ScheduleSize == Len(schedule.nodes) + FanOutCount(schedule.edges) + added + block

\* the successor lists the host hands to push: node indices, in any order
Successors ==
    UNION {[1..n -> 0..(MaxScheduleNodes - 1)] : n \in 0..MaxFanOut}

\* the host pushes a processor; processors are named in the order pushed
Push ==
    \E successors \in Successors :
        /\ Idle
        /\ Len(schedule.nodes) < MaxScheduleNodes
        /\ ScheduleSize + 1 + Len(successors) <= MaxScheduleSize
        /\ schedule' = push(schedule, Processor(Len(schedule.nodes)), successors)
        /\ delivered' = Append(delivered, [k \in 1..0 |-> ZERO_SAMPLE])
        /\ UNCHANGED <<voices, added, inputs, cursor, block, call, panicked, graph_vars, smoother_vars, filter_vars, math_vars>>

\* the host adds a voice; a norm_freq is a key the schedule only hands on, so
\* the k-th voice added has norm_freq k
AddVoice ==
    \E norm_freq \in {added + 1} :
        \E r \in {add_voice(schedule, norm_freq)} :
            /\ Idle
            /\ added < MaxVoices
            /\ ScheduleSize < MaxScheduleSize
            /\ added' = added + 1
            /\ schedule' = r.sched
            /\ panicked' = r.panic
            /\ voices' = Append(voices, norm_freq)
            /\ delivered' = [n \in 1..Len(delivered) |-> Append(delivered[n], ZERO_SAMPLE)]
            /\ UNCHANGED <<inputs, cursor, block, call, graph_vars, smoother_vars, filter_vars, math_vars>>

\* the host removes the voice at a slot
RemoveVoice ==
    \E voice_idx \in 0..(MaxVoices - 1) :
        \E r \in {remove_voice(schedule, voice_idx)} :
            /\ Idle
            /\ schedule' = r.sched
            /\ panicked' = r.panic
            /\ voices' = IF voice_idx < Len(voices) THEN swap_remove(voices, voice_idx)
                          ELSE voices
            /\ delivered' = IF r.panic THEN delivered
                             ELSE [n \in 1..Len(delivered) |->
                                      swap_remove(delivered[n], voice_idx)]
            /\ UNCHANGED <<added, inputs, cursor, block, call, graph_vars, smoother_vars, filter_vars, math_vars>>

\* the sample the host left in slot k (1-based) of the slice for block b
HostSample(b, k) == SetToBag({<<-1, b, k>>})

\* the host calls process with a slice of n slots, each holding its own sample
ProcessCall ==
    \E n \in 0..MaxVoices :
        /\ Idle
        /\ block < MaxBlocks
        /\ ScheduleSize < MaxScheduleSize
        /\ block' = block + 1
        /\ cursor' = 0
        /\ inputs' = [k \in 1..n |-> HostSample(block + 1, k)]
        /\ UNCHANGED <<schedule, voices, added, delivered, call, panicked, graph_vars, smoother_vars, filter_vars, math_vars>>

\* one iteration of `for i in 0..self.nodes.len()`
ProcessNode ==
    /\ ~panicked
    /\ cursor >= 0 /\ cursor < Len(schedule.nodes)
    /\ \E r \in {process_node(schedule, delivered, inputs, cursor, block)} :
          /\ schedule' = [schedule EXCEPT !.nodes = r.nodes]
          /\ delivered' = r.delivered
          /\ inputs' = r.inputs
          /\ call' = r.call
          /\ panicked' = r.panic
          /\ cursor' = cursor + 1
    /\ UNCHANGED <<voices, added, block, graph_vars, smoother_vars, filter_vars, math_vars>>

\* the loop is over: process returns, no call of a node is in progress
ProcessReturn ==
    /\ ~panicked
    /\ cursor = Len(schedule.nodes)
    /\ cursor' = -1
    /\ call' = NoCall
    /\ UNCHANGED <<schedule, voices, added, inputs, block, delivered, panicked, graph_vars, smoother_vars, filter_vars, math_vars>>

ScheduleNext == Push \/ AddVoice \/ RemoveVoice \/ ProcessCall \/ ProcessNode \/ ProcessReturn

\* ------------------------------------------- process schedule: a full house
\* The host again, adding voices up to and past the capacity of the buffers.
\* No block is processed, so the processors need no successors and every voice
\* can have the same norm_freq.

\* the host pushes a processor
FullPush ==
    /\ ~panicked
    /\ Len(schedule.nodes) < MaxFullNodes
    /\ schedule' = push(schedule, Processor(Len(schedule.nodes)), <<>>)
    /\ delivered' = Append(delivered, [k \in 1..0 |-> ZERO_SAMPLE])
    /\ UNCHANGED <<voices, added, inputs, cursor, block, call, panicked, graph_vars,
                   smoother_vars, filter_vars, math_vars>>

\* the host adds a voice
FullAddVoice ==
    \E r \in {add_voice(schedule, 1)} :
        /\ ~panicked
        /\ added < MaxAdds
        /\ added' = added + 1
        /\ schedule' = r.sched
        /\ panicked' = r.panic
        /\ voices' = Append(voices, 1)
        /\ delivered' = [n \in 1..Len(delivered) |-> Append(delivered[n], ZERO_SAMPLE)]
        /\ UNCHANGED <<inputs, cursor, block, call, graph_vars, smoother_vars, filter_vars,
                       math_vars>>

\* the host removes the voice at the first slot, or at the slot past the last
FullRemoveVoice ==
    \E voice_idx \in {0, Len(voices)} :
        \E r \in {remove_voice(schedule, voice_idx)} :
            /\ ~panicked
            /\ schedule' = r.sched
            /\ panicked' = r.panic
            /\ voices' = IF voice_idx < Len(voices) THEN swap_remove(voices, voice_idx)
                          ELSE voices
            /\ delivered' = IF r.panic THEN delivered
                             ELSE [n \in 1..Len(delivered) |->
                                      swap_remove(delivered[n], voice_idx)]
            /\ UNCHANGED <<added, inputs, cursor, block, call, graph_vars, smoother_vars,
                           filter_vars, math_vars>>

FullNext == FullPush \/ FullAddVoice \/ FullRemoveVoice

\* ------------------------------------------------------- smoothers: the host
\* the smoothers the host can build: the three of the crate, bare or wrapped
Smoothers ==
    LET bare == {LogSmoother_default, LinearSmoother_default, ExpSmoother_default}
    IN  bare \cup {Bounded_default(inner) : inner \in bare}

\* the values the host sets and aims at: 1.0 and 4.0
Values == {ONE, f32_of(4, 0)}

\* a number of samples as the smoothers take it
Samples(n) == f32_of(n, 0)

\* Default::default()
Default ==
    /\ smoother = NoSmoother
    /\ \E built \in Smoothers :
        /\ smoother' = built
        /\ ramp' = [op |-> "default", target |-> get_current(built), n |-> 0,
                    start |-> get_current(built), ticked |-> 0, single |-> TRUE, sets |-> 0, samples |-> 0]
    /\ UNCHANGED <<graph_vars, schedule_vars, filter_vars, math_vars>>

SetValInstantly ==
    /\ smoother # NoSmoother
    /\ ramp.sets < MaxSets
    /\ \E target \in Values :
        \E after \in set_val_instantly(smoother, target) :
            /\ smoother' = after
            /\ ramp' = [op |-> "set_val_instantly", target |-> target, n |-> 0,
                        start |-> target, ticked |-> 0, single |-> TRUE, sets |-> ramp.sets + 1,
                        samples |-> ramp.samples]
    /\ UNCHANGED <<graph_vars, schedule_vars, filter_vars, math_vars>>

SetTarget ==
    /\ smoother # NoSmoother
    /\ ramp.sets < MaxSets
    /\ \E target \in Values, n \in 1..MaxRampLen :
        \E after \in set_target(smoother, target, Samples(n)) :
            /\ smoother' = after
            /\ ramp' = [op |-> "set_target", target |-> target, n |-> n,
                        start |-> get_current(smoother), ticked |-> 0, single |-> TRUE,
                        sets |-> ramp.sets + 1, samples |-> ramp.samples]
    /\ UNCHANGED <<graph_vars, schedule_vars, filter_vars, math_vars>>

Tick ==
    /\ smoother # NoSmoother
    /\ \E k \in 0..MaxTickLen :
        /\ ramp.samples + k <= MaxTicks
        /\ \E after \in tick(smoother, Samples(k)) :
            /\ smoother' = after
            /\ ramp' = [ramp EXCEPT !.ticked = @ + k, !.samples = @ + k, !.single = FALSE]
    /\ UNCHANGED <<graph_vars, schedule_vars, filter_vars, math_vars>>

Tick1 ==
    /\ smoother # NoSmoother
    /\ ramp.samples + 1 <= MaxTicks
    /\ \E after \in tick1(smoother) :
        /\ smoother' = after
        /\ ramp' = [ramp EXCEPT !.ticked = @ + 1, !.samples = @ + 1]
    /\ UNCHANGED <<graph_vars, schedule_vars, filter_vars, math_vars>>

SmootherNext == Default \/ SetValInstantly \/ SetTarget \/ Tick \/ Tick1

\* --------------------------------------------------------- filters: the host
\* the filters the host can build
Filters == {Integrator_default, OnePole_default, SVF_default}

\* the samples the host feeds: 1.0, -0.75 and 4.0
Signal == {ONE, f32_of(-3, -2), f32_of(4, 0)}

\* the cutoff w_c the host sets: 1.0
Cutoffs == {ONE}

\* the gains the host sets: 4.0 and 0.5
Gains == {f32_of(4, 0), f32_of(1, -1)}

\* the filter shapes the host asks the setter for
UpdateModes == {"LP", "LSH", "HSH"}

\* f32::tan of SVF::g is the platform's libm, which the model does not
\* compute: the host draws g itself, from 0.5 and 1.0
TanValues == {f32_of(1, -1), ONE}

\* the shapes a filter can output
OutputModes(self) ==
    IF self.kind = "OnePole" THEN {"HP", "LP", "AP", "LSH", "HSH"}
    ELSE {"LP", "BP", "BP1", "HP", "AP", "NCH", "LSH", "BSH", "HSH"}

\* Default::default()
NewFilter ==
    /\ filter = NoFilter
    /\ \E built \in Filters :
        /\ filter' = built
        /\ fed' = [fed EXCEPT !.op = "default"]
    /\ UNCHANGED <<graph_vars, schedule_vars, smoother_vars, math_vars>>

\* Integrator::tick(sample)
IntegratorTick ==
    /\ filter.kind = "Integrator"
    /\ Len(fed.since) < MaxSamples
    /\ \E sample \in Signal :
        LET ticked == Integrator_tick(filter, sample)
        IN  /\ filter' = ticked.self
            /\ fed' = [fed EXCEPT !.op = "tick", !.before = filter, !.out = ticked.output,
                                  !.since = Append(fed.since, sample), !.cleared = FALSE]
    /\ UNCHANGED <<graph_vars, schedule_vars, smoother_vars, math_vars>>

\* Integrator::get_current(), through &self
IntegratorGetCurrent ==
    /\ filter.kind = "Integrator"
    /\ filter' = filter
    /\ fed' = [fed EXCEPT !.op = "get_current", !.before = filter,
                          !.out = Integrator_get_current(filter)]
    /\ UNCHANGED <<graph_vars, schedule_vars, smoother_vars, math_vars>>

\* Integrator::reset(), OnePole::reset(), SVF::reset()
Reset ==
    /\ filter # NoFilter
    /\ filter' = CASE filter.kind = "Integrator" -> Integrator_reset(filter)
                   [] filter.kind = "OnePole" -> OnePole_reset(filter)
                   [] filter.kind = "SVF" -> SVF_reset(filter)
    /\ fed' = [fed EXCEPT !.op = "reset", !.before = filter, !.since = <<>>,
                          !.cleared = IF filter.kind = "Integrator" THEN ~is_zero(filter.s)
                                      ELSE FALSE]
    /\ UNCHANGED <<graph_vars, schedule_vars, smoother_vars, math_vars>>

\* the setter OnePole::get_update_function or get_smoothing_update_function
\* returns for a shape, called
OnePoleSet ==
    /\ filter.kind = "OnePole"
    /\ fed.calls < MaxCalls
    /\ \E mode \in UpdateModes, smoothed \in BOOLEAN, w_c \in Cutoffs, gain \in Gains :
        \E calls \in {OnePole_get_update_function(mode, smoothed, w_c, gain, f32_of(1, -1))} :
            \E after \in OnePole_set(filter, calls) :
                /\ filter' = after
                /\ fed' = [fed EXCEPT !.op = "set", !.before = filter, !.calls = @ + 1,
                                      !.args = [mode |-> mode, smoothed |-> smoothed,
                                                w_c |-> w_c, gain |-> gain],
                                      !.aim = calls]
    /\ UNCHANGED <<graph_vars, schedule_vars, smoother_vars, math_vars>>

\* SVF::set_params_band_shelving(w_c, res, gain) and
\* set_params_band_shelving_smoothed(w_c, res, gain, num_samples)
SvfSet ==
    /\ filter.kind = "SVF"
    /\ fed.calls < MaxCalls
    /\ \E g \in TanValues, gain \in Gains, smoothed \in BOOLEAN :
        LET res == f32_div(ONE, f32_sqrt(gain))
        IN  \E after \in IF smoothed THEN SVF_set_values_smoothed(filter, g, res, gain, 1)
                         ELSE SVF_set_values(filter, g, res, gain) :
                /\ filter' = after
                /\ fed' = [fed EXCEPT !.op = "set", !.before = filter, !.calls = @ + 1]
    /\ UNCHANGED <<graph_vars, schedule_vars, smoother_vars, math_vars>>

\* OnePole::update_smoothers(), SVF::update_all_smoothers()
UpdateSmoothers ==
    /\ filter.kind \in {"OnePole", "SVF"}
    /\ fed.calls < MaxCalls
    /\ \E after \in IF filter.kind = "OnePole" THEN OnePole_update_smoothers(filter)
                    ELSE SVF_update_all_smoothers(filter) :
        /\ filter' = after
        /\ fed' = [fed EXCEPT !.op = "update_smoothers", !.before = filter, !.calls = @ + 1]
    /\ UNCHANGED <<graph_vars, schedule_vars, smoother_vars, math_vars>>

\* OnePole::process(x), SVF::process(sample)
Process ==
    /\ filter.kind \in {"OnePole", "SVF"}
    /\ fed.calls < MaxCalls
    /\ \E sample \in Signal :
        /\ filter' = IF filter.kind = "OnePole" THEN OnePole_process(filter, sample)
                     ELSE SVF_process(filter, sample)
        /\ fed' = [fed EXCEPT !.op = "process", !.before = filter, !.calls = @ + 1]
    /\ UNCHANGED <<graph_vars, schedule_vars, smoother_vars, math_vars>>

\* the getter get_output_function returns for a shape, called through &self
GetOutput ==
    /\ filter.kind \in {"OnePole", "SVF"}
    /\ \E mode \in OutputModes(filter) :
        /\ filter' = filter
        /\ fed' = [fed EXCEPT !.op = "get_output", !.before = filter,
                              !.out = IF filter.kind = "OnePole"
                                      THEN OnePole_get_output_function(filter, mode)
                                      ELSE SVF_get_output_function(filter, mode)]
    /\ UNCHANGED <<graph_vars, schedule_vars, smoother_vars, math_vars>>

FilterNext ==
    \/ NewFilter \/ IntegratorTick \/ IntegratorGetCurrent \/ Reset
    \/ OnePoleSet \/ SvfSet \/ UpdateSmoothers \/ Process \/ GetOutput

\* ------------------------------------------------- math and dsp: the caller
\* the positive, finite, normal f32: every exponent, with the least, a middle
\* and the greatest mantissa
PositiveNormals ==
    {[neg |-> FALSE, m |-> m, e |-> e] :
        m \in {2^MANTISSA_BITS, 3 * 2^(MANTISSA_BITS - 1) + 1, Limb - 1},
        e \in EMin..(NotFinite - 1)}

\* the samples the caller interpolates: 0.0, 1.0, 2.0 and -1.5
Points == {f32_zero, ONE, f32_of(2, 0), f32_of(-3, -1)}

\* the positions between y1 and y2: 0.0, 0.5 and 1.0
Positions == {f32_zero, f32_of(1, -1), ONE}

\* ilog2f(x), one call a run
ApplyIlog2f ==
    /\ applied.fn = "none"
    /\ \E x \in PositiveNormals :
        \E ret \in ilog2f(x) :
            applied' = [fn |-> "ilog2f", args |-> <<x>>, ret |-> ret]
    /\ UNCHANGED <<graph_vars, schedule_vars, smoother_vars, filter_vars>>

\* cubic_interp(y0, y1, y2, y3, mu), one call a run
ApplyCubicInterp ==
    /\ applied.fn = "none"
    /\ \E y0 \in Points, y1 \in Points, y2 \in Points, y3 \in Points, mu \in Positions :
        applied' = [fn |-> "cubic_interp", args |-> <<y0, y1, y2, y3, mu>>,
                    ret |-> cubic_interp(y0, y1, y2, y3, mu)]
    /\ UNCHANGED <<graph_vars, schedule_vars, smoother_vars, filter_vars>>

\* the index slices the caller hands to permute: up to MaxPermute entries, each
\* a valid index or one past the longest slice
IndexSlices == UNION {[1..n -> 0..MaxPermute] : n \in 0..MaxPermute}

\* permute(slice, indices), one call a run; the k-th payload of slice is -k
ApplyPermute ==
    /\ applied.fn = "none"
    /\ \E n \in 0..MaxPermute, indices \in IndexSlices :
        LET slice == Vec([k \in 1..n |-> -k])
        IN  applied' = [fn |-> "permute", args |-> <<slice, indices>>,
                        ret |-> permute(slice, indices)]
    /\ UNCHANGED <<graph_vars, schedule_vars, smoother_vars, filter_vars>>

MathNext == ApplyIlog2f \/ ApplyCubicInterp \/ ApplyPermute

\* ------------------------------------------------------------ specifications

\* the audio graph under the host's inserts and connects
Spec == Init /\ [][GraphNext]_vars

\* the process schedule under the host's pushes, voice events and blocks
ScheduleSpec == Init /\ [][ScheduleNext]_vars

\* the process schedule under the host's pushes and voice events, up to full
\* buffers
FullSpec == Init /\ [][FullNext]_vars

\* a smoother under the host's targets and ticks
SmootherSpec == Init /\ [][SmootherNext]_vars

\* a filter under the host's parameters and samples
FilterSpec == Init /\ [][FilterNext]_vars

\* the functions of math.rs, dsp.rs and dsp/processor.rs under the caller's
\* arguments
MathSpec == Init /\ [][MathNext]_vars

\* ------------------------------------------------- graph: what claims speak of

\* the edges of the given kinds as pairs <<u, v>> of stored (0-based) indices
EdgePairs(nodes, kinds) ==
    {<<n - 1, nodes[n].edges[k].index>> :
        <<n, k>> \in {nk \in (1..Len(nodes)) \X (1..EdgeCount(nodes)) :
                        /\ nk[2] <= Len(nodes[nk[1]].edges)
                        /\ nodes[nk[1]].edges[nk[2]].kind \in kinds}}

\* the edges as triples <<id of source, id of target, kind>>
IdEdges(nodes) ==
    {<<nodes[n].id, nodes[nodes[n].edges[k].index + 1].id, nodes[n].edges[k].kind>> :
        <<n, k>> \in {nk \in (1..Len(nodes)) \X (1..EdgeCount(nodes)) :
                        nk[2] <= Len(nodes[nk[1]].edges)}}

\* the ids in stored order
IdOrder(nodes) == Vec([n \in 1..Len(nodes) |-> nodes[n].id])

\* pairs joined by a path of 1..2^k edges of R
RECURSIVE PathPairs(_, _)
PathPairs(R, k) ==
    IF k = 0 THEN R
    ELSE PathPairs(R \cup {<<pq[1][1], pq[2][2]>> :
                             pq \in {x \in R \X R : x[1][2] = x[2][1]}}, k - 1)

\* a (possibly empty) path of edges of the given kinds leads from a to b
Reaches(nodes, kinds, a, b) ==
    a = b \/ <<a, b>> \in PathPairs(EdgePairs(nodes, kinds), MaxNodes + 1)

\* some node lies on a cycle of edges of the given kinds
HasCycle(nodes, kinds) ==
    \E u \in 0..(Len(nodes) - 1) :
        <<u, u>> \in PathPairs(EdgePairs(nodes, kinds), MaxNodes + 1)

\* a step is a call connect(from_id, to_id): the call and its result are in result'
IsConnect == result'.op = "connect"

FromIndex == find_node(ordered_nodes, result'.from_id)

ToIndex == find_node(ordered_nodes, result'.to_id)

IsDuplicate == contains(ordered_nodes[FromIndex + 1].edges, ToIndex)

\* ---------------------------------------------------------------------- C1
\* C1: after any sequence of top_level_insert and connect calls from an empty
\* graph the Normal edges form no cycle, and Kahn's sort over the Normal edges
\* emits an ordering as long as the node list.
C1_NormalAcyclic ==
    /\ ~HasCycle(ordered_nodes, {"Normal"})
    /\ LET sorted == topological_sort(normal_edges(ordered_nodes))
       IN  sorted.some /\ Len(sorted.ordering) = Len(ordered_nodes)

\* a connect has just closed a cycle next to two Normal edges
C1_Witness ==
    /\ result.op = "connect" /\ result.ret.some /\ ~result.ret.has_perm
    /\ Cardinality(EdgePairs(ordered_nodes, {"Normal"})) >= 2
    /\ HasCycle(ordered_nodes, {"Normal", "Feedback"})

\* ---------------------------------------------------------------------- C2
\* C2: the stored node list is a topological sort of the Normal subgraph: every
\* Normal edge u->v has u < v.
C2_StoredOrderTopological ==
    \A e \in EdgePairs(ordered_nodes, {"Normal"}) : e[1] < e[2]

\* a connect has just moved nodes: the permutation it returned is not the identity
C2_Witness ==
    /\ result.op = "connect" /\ result.ret.has_perm
    /\ \E k \in 1..Len(result.ret.perm) : result.ret.perm[k] # k - 1
    /\ Cardinality(EdgePairs(ordered_nodes, {"Normal"})) >= 2

\* ---------------------------------------------------------------------- C3
\* C3: when connect accepts an edge and the sort succeeds, the ordering returned
\* is a permutation of 0..n-1, the node at new position k is the node that was at
\* position ordering[k], and the edges join the same pairs of ids as before, with
\* the same kinds, plus the one new Normal edge.
C3_Step ==
    (IsConnect /\ result'.ret.some /\ result'.ret.has_perm) =>
        LET perm == result'.ret.perm
            n    == Len(ordered_nodes)
        IN  /\ Len(perm) = n
            /\ {perm[k] : k \in 1..n} = 0..(n - 1)
            /\ Len(ordered_nodes') = n
            /\ \A k \in 1..n : ordered_nodes'[k].id = ordered_nodes[perm[k] + 1].id
            /\ <<result'.from_id, result'.to_id, "Normal">> \notin IdEdges(ordered_nodes)
            /\ <<result'.from_id, result'.to_id, "Feedback">> \notin IdEdges(ordered_nodes)
            /\ IdEdges(ordered_nodes') =
                   IdEdges(ordered_nodes) \cup {<<result'.from_id, result'.to_id, "Normal">>}
            /\ EdgeCount(ordered_nodes') = EdgeCount(ordered_nodes) + 1

C3_PermutationValid == [][C3_Step]_vars

\* a connect has returned a permutation that is a 3-cycle, in a graph that also
\* holds a Feedback edge
C3_Witness ==
    /\ result.op = "connect" /\ result.ret.has_perm
    /\ \E k \in 1..Len(result.ret.perm) :
          /\ result.ret.perm[k] # k - 1
          /\ result.ret.perm[result.ret.perm[k] + 1] # k - 1
    /\ EdgePairs(ordered_nodes, {"Feedback"}) # {}

\* ---------------------------------------------------------------------- C4
\* C4: connect(from, to) of a non-duplicate edge that closes a cycle of Normal
\* edges (from = to included) appends the edge as Feedback, leaves the node order
\* and every other edge as they were, and returns Some(((from, to), None)).
C4_Step ==
    (IsConnect /\ ~IsDuplicate
        /\ Reaches(ordered_nodes, {"Normal"}, ToIndex, FromIndex)) =>
        /\ ordered_nodes' = [ordered_nodes EXCEPT ![FromIndex + 1].edges =
                                Append(@, Feedback(ToIndex))]
        /\ result'.ret = [some |-> TRUE, pair |-> <<FromIndex, ToIndex>>,
                          has_perm |-> FALSE, perm |-> <<>>]

C4_CycleDemoted == [][C4_Step]_vars

\* a connect between two different nodes has just been demoted
C4_Witness ==
    /\ result.op = "connect" /\ result.ret.some /\ ~result.ret.has_perm
    /\ result.from_id # result.to_id
    /\ <<result.from_id, result.to_id, "Feedback">> \in IdEdges(ordered_nodes)

\* ---------------------------------------------------------------------- C5
\* C5: connect(from, to) of a non-duplicate edge that closes no cycle made only of
\* Normal edges stores the edge as Normal and returns a permutation, also when
\* the edge closes a cycle through Feedback edges.
C5_Step ==
    (IsConnect /\ ~IsDuplicate
        /\ ~Reaches(ordered_nodes, {"Normal"}, ToIndex, FromIndex)) =>
        /\ result'.ret.some /\ result'.ret.has_perm
        /\ result'.ret.pair = <<FromIndex, ToIndex>>
        /\ <<result'.from_id, result'.to_id, "Normal">> \in IdEdges(ordered_nodes')

C5_FeedbackIgnored == [][C5_Step]_vars

\* a connect has just been accepted as Normal although the new edge lies on a
\* cycle (which then passes through a Feedback edge)
C5_Witness ==
    /\ result.op = "connect" /\ result.ret.has_perm
    /\ Reaches(ordered_nodes, {"Normal", "Feedback"},
               find_node(ordered_nodes, result.to_id),
               find_node(ordered_nodes, result.from_id))

\* ---------------------------------------------------------------------- C6
\* C6: no node ever holds two edges (of either kind) to the same target, and a
\* connect(from, to) where from already holds an edge to `to` returns None and
\* leaves the graph as it was.
C6_NoTwoEdges ==
    \A n \in 1..Len(ordered_nodes) :
        ~has_duplicates([k \in 1..Len(ordered_nodes[n].edges) |->
                            ordered_nodes[n].edges[k].index])

C6_Step ==
    (IsConnect /\ IsDuplicate) =>
        /\ ordered_nodes' = ordered_nodes
        /\ ~result'.ret.some

C6_DuplicateRejected == []C6_NoTwoEdges /\ [][C6_Step]_vars

\* a connect has just been rejected although the edge it repeats is a Feedback edge
C6_Witness ==
    /\ result.op = "connect" /\ ~result.ret.some
    /\ <<result.from_id, result.to_id, "Feedback">> \in IdEdges(ordered_nodes)

\* ---------------------------------------------------------------------- C7
\* C7 as claimed: every Feedback edge u->v goes from a later node to an earlier
\* one, index(u) > index(v).
C7_FeedbackStrictlyBackward ==
    \A e \in EdgePairs(ordered_nodes, {"Feedback"}) : e[1] > e[2]

\* C7 as amended: every Feedback edge u->v is a self-loop (u = v) or goes from a
\* later node to an earlier one; index(u) >= index(v) in every case.
C7_FeedbackBackwardOrSelf ==
    \A e \in EdgePairs(ordered_nodes, {"Feedback"}) : e[1] >= e[2]

\* a Feedback self-loop and a Feedback edge between two nodes, after a reorder
C7_Witness ==
    /\ result.op = "connect" /\ result.ret.has_perm
    /\ \E e \in EdgePairs(ordered_nodes, {"Feedback"}) : e[1] = e[2]
    /\ \E e \in EdgePairs(ordered_nodes, {"Feedback"}) : e[1] > e[2]

\* ---------------------------------------------------------------------- C8
\* the ways of naming the three nodes of a graph A, B, C
S5Names == {t \in (1..3) \X (1..3) \X (1..3) : Cardinality({t[1], t[2], t[3]}) = 3}

S5Graph(nodes) == Len(nodes) = 3

\* C8 (scenario S5): on a graph of exactly the nodes A, B, C the calls
\* connect(A,B), connect(B,C), connect(C,A) each return Some; the graph then
\* holds A->B and B->C as Normal and C->A as Feedback and is stored as [A, B, C].
C8_Step ==
    \A t \in S5Names :
        LET A == t[1]
            B == t[2]
            C == t[3]
            connects(f, g) == IsConnect /\ result'.from_id = f /\ result'.to_id = g
        IN  /\ (S5Graph(ordered_nodes) /\ IdEdges(ordered_nodes) = {} /\ connects(A, B)) =>
                /\ result'.ret.some
                /\ IdEdges(ordered_nodes') = {<<A, B, "Normal">>}
            /\ (S5Graph(ordered_nodes) /\ IdEdges(ordered_nodes) = {<<A, B, "Normal">>}
                    /\ connects(B, C)) =>
                /\ result'.ret.some
                /\ IdEdges(ordered_nodes') = {<<A, B, "Normal">>, <<B, C, "Normal">>}
            /\ (S5Graph(ordered_nodes)
                    /\ IdEdges(ordered_nodes) = {<<A, B, "Normal">>, <<B, C, "Normal">>}
                    /\ connects(C, A)) =>
                /\ result'.ret.some
                /\ IdEdges(ordered_nodes') =
                       {<<A, B, "Normal">>, <<B, C, "Normal">>, <<C, A, "Feedback">>}
                /\ IdOrder(ordered_nodes') = <<A, B, C>>

C8_ScenarioS5 == [][C8_Step]_vars

\* the scenario has run to its end, with A the node inserted first (so that the
\* connects had to turn the stored order around)
C8_Witness ==
    /\ S5Graph(ordered_nodes)
    /\ result.op = "connect" /\ result.from_id = 3 /\ result.to_id = 1
    /\ result.ret.some /\ ~result.ret.has_perm
    /\ IdEdges(ordered_nodes) = {<<1, 2, "Normal">>, <<2, 3, "Normal">>, <<3, 1, "Feedback">>}
    /\ IdOrder(ordered_nodes) = <<1, 2, 3>>

\* ---------------------------------------------------------------------- C9
\* Scenario S6 inserts X, Y, Z in that order: they are the nodes named 1, 2, 3.
S6Inserted == Len(ordered_nodes) = 3 /\ EdgeCount(ordered_nodes) = 0

\* connect(Z, X) was the first connect on the three nodes and has returned
S6Connected ==
    /\ Len(ordered_nodes) = 3 /\ EdgeCount(ordered_nodes) = 1
    /\ result.op = "connect" /\ result.from_id = 3 /\ result.to_id = 1
    /\ result.ret.some

\* what S6 expects of connect(Z, X), given the index z that Z had and the index
\* x that X had before the call
S6AfterConnect(z, x) ==
    LET Z == find_node(ordered_nodes, 3)
        X == find_node(ordered_nodes, 1)
    IN  /\ result.ret.has_perm
        /\ result.ret.pair = <<z, x>>
        /\ Z < X
        /\ SeqPos(result.ret.perm, z) = Z
        /\ SeqPos(result.ret.perm, x) = X
        /\ contains(ordered_nodes[Z + 1].edges, X)

\* C9 as claimed: X, Y, Z get the indices 0, 1, 2; connect(Z, X) then puts Z
\* before X and returns a permutation that maps Z's old index to its new one.
C9_InsertedAscending ==
    /\ S6Inserted => IdOrder(ordered_nodes) = <<1, 2, 3>>
    /\ S6Connected => S6AfterConnect(2, 0)

\* C9 as amended: X, Y, Z get the indices 2, 1, 0 (each insert goes to index 0);
\* connect(Z, X) then stores [Y, Z, X], Z before X, and returns ((0, 2), [1, 0, 2]):
\* the position of a node's old index in the permutation is its new index.
C9_InsertedDescending ==
    /\ S6Inserted => IdOrder(ordered_nodes) = <<3, 2, 1>>
    /\ S6Connected =>
          /\ S6AfterConnect(0, 2)
          /\ IdOrder(ordered_nodes) = <<2, 3, 1>>
          /\ result.ret.perm = <<1, 0, 2>>

C9_Witness == S6Connected /\ result.ret.has_perm

\* --------------------------------------------------------------------- C10
\* C10: when a node's process is invoked, its buffer holds for each voice
\* exactly the sum of the samples that its inbound edges delivered since the
\* node last ran, and nothing else.
C10_BufferIsInboundSum ==
    call.node # -1 => call.buffer = call.inbound

\* ---------------------------------------------- schedule: what claims speak of

\* the buffer of node n (0-based)
BufferOf(n) == schedule.nodes[n + 1].sample_buffer

\* node i lists node j among its successors
HasEdge(i, j) ==
    \E s \in 1..Len(schedule.edges[i + 1]) : schedule.edges[i + 1][s] = j

\* the samples in slot k of a buffer that node i put out itself
OwnOutputs(buffer, i, k) == {a \in BagToSet(buffer[k]) : a[1] = i}

\* node j has just been handed its buffer inside process
Called(j) == call.node = j /\ cursor = j + 1

\* --------------------------------------------------------------------- C11
\* what node j is handed in block B holds nothing a later node put out in
\* block B, and holds, slot by slot, what every later node i with an edge
\* i -> j put out in block B - 1
C11_Consumed ==
    \A j \in 0..(Len(schedule.nodes) - 1) : Called(j) =>
        \A i \in (j + 1)..(Len(schedule.nodes) - 1) :
            /\ \A k \in 1..Len(call.buffer) :
                  \A a \in OwnOutputs(call.buffer, i, k) : a[2] = call.block - 1
            /\ HasEdge(i, j) =>
                  \A k \in 1..Len(BufferOf(i)) :
                      \A a \in OwnOutputs(BufferOf(i), i, k) :
                          /\ a[2] = call.block - 1
                          /\ k <= Len(call.buffer)
                          /\ BagIn(a, call.buffer[k])

\* when node i runs without a panic, what it puts out is added to the buffer of
\* every earlier node j it has an edge to, and j has already run in this block
C11_Added ==
    (cursor >= 0 /\ cursor' = cursor + 1 /\ ~panicked') =>
        \A j \in 0..(cursor - 1) : HasEdge(cursor, j) =>
            \A k \in 1..Len(schedule'.nodes[cursor + 1].sample_buffer) :
                \A a \in OwnOutputs(schedule'.nodes[cursor + 1].sample_buffer, cursor, k) :
                    /\ a[2] = block
                    /\ ~BagIn(a, schedule.nodes[j + 1].sample_buffer[k])
                    /\ BagIn(a, schedule'.nodes[j + 1].sample_buffer[k])

\* C11: feedback latency. For an edge i -> j with i > j, the output of node i in
\* block B - 1 is added to the buffer of j after j ran in block B - 1 and is in
\* the buffer j consumes in block B; j never sees the block-B output of i in
\* block B.
C11_FeedbackLatency == []C11_Consumed /\ [][C11_Added]_vars

\* node 0 is handed, in block 2, the block-1 output of a later node
C11_Witness ==
    /\ Called(0) /\ call.block = 2
    /\ \E i \in 1..(Len(schedule.nodes) - 1) :
          /\ HasEdge(i, 0)
          /\ \E k \in 1..Len(call.buffer) :
                \E a \in OwnOutputs(call.buffer, i, k) : a[2] = 1

\* --------------------------------------------------------------------- C12
\* what node j is handed in block B holds, slot by slot, what every earlier
\* node i with an edge i -> j put out in block B
C12_Summed ==
    \A j \in 0..(Len(schedule.nodes) - 1) : Called(j) =>
        \A i \in 0..(j - 1) : HasEdge(i, j) =>
            \A k \in 1..Len(BufferOf(i)) :
                \A a \in OwnOutputs(BufferOf(i), i, k) :
                    /\ a[2] = call.block
                    /\ k <= Len(call.buffer)
                    /\ BagIn(a, call.buffer[k])

\* process starts at node 0, runs the node at the cursor and moves the cursor
\* on by one, and returns only when the cursor is past the last node; the
\* schedule keeps its nodes and edges meanwhile
C12_InOrder ==
    /\ (cursor = -1 /\ cursor' # -1) => (cursor' = 0 /\ block' = block + 1)
    /\ (cursor # -1 /\ cursor' # cursor) =>
          /\ block' = block
          /\ schedule'.edges = schedule.edges
          /\ Len(schedule'.nodes) = Len(schedule.nodes)
          /\ \/ cursor' = -1 /\ cursor = Len(schedule.nodes)
             \/ /\ cursor' = cursor + 1 /\ cursor < Len(schedule.nodes)
                /\ call'.node = cursor /\ call'.block = block
    /\ (call' # call /\ call'.node # -1) => cursor' = cursor + 1

\* C12: within one call of process every node runs exactly once, in increasing
\* index order, and for every edge i -> j with i < j the output of i for the
\* current block is in the buffer of j before j is invoked.
C12_ForwardSummedInOrder == []C12_Summed /\ [][C12_InOrder]_vars

\* the last of two nodes is handed the current output of the first
C12_Witness ==
    /\ Called(1) /\ HasEdge(0, 1)
    /\ \E k \in 1..Len(call.buffer) :
          \E a \in OwnOutputs(call.buffer, 0, k) : a[2] = call.block

\* --------------------------------------------------------------------- C13
\* every node has run and process is about to return
Returning == cursor >= 0 /\ cursor = Len(schedule.nodes) /\ ~panicked

\* node n (0-based) has an empty fan-out list
IsSink(n) == schedule.edges[n + 1] = <<>>

\* the sum, over the sinks that have a slot k (1-based), of what the sink put
\* out for that slot in this block
SinkSum(k) ==
    LET F[n \in 0..Len(schedule.nodes)] ==
            IF n = 0 THEN ZERO_SAMPLE
            ELSE IF IsSink(n - 1) /\ k <= Len(BufferOf(n - 1))
                 THEN F[n - 1] (+) SetToBag({<<n - 1, block,
                                               schedule.nodes[n].processor.voices[k]>>})
                 ELSE F[n - 1]
    IN  F[Len(schedule.nodes)]

\* C13 as claimed: when process returns, each slot of inputs holds the sum of
\* the outputs of the sinks for that voice in this block.
C13_InputsAreSinkSum ==
    Returning => \A k \in 1..Len(inputs) : inputs[k] = SinkSum(k)

\* C13 as amended: when process returns, each slot of inputs holds what the host
\* left in it plus the sum of the outputs, for that slot in this block, of the
\* sinks whose buffer has that slot.
C13_InputsGainSinkSum ==
    Returning => \A k \in 1..Len(inputs) : inputs[k] = HostSample(block, k) (+) SinkSum(k)

\* two sinks have run and added to a slot of the host
C13_Witness ==
    /\ Returning /\ Len(inputs) >= 1
    /\ \E m, n \in 0..(Len(schedule.nodes) - 1) :
          /\ m # n /\ IsSink(m) /\ IsSink(n)
          /\ Len(BufferOf(m)) >= 1 /\ Len(BufferOf(n)) >= 1

\* --------------------------------------------------------------------- C14
\* C14: after any sequence of push, add_voice and remove_voice, the buffer of
\* every node is as long as the number of active voices.
C14_BufferLenIsVoiceCount ==
    ~panicked =>
        \A n \in 0..(Len(schedule.nodes) - 1) : Len(BufferOf(n)) = Len(voices)

\* --------------------------------------------------------------------- C15
\* slot k (0-based) is swap-removed from `old`, giving `new`: one slot fewer, the
\* last sample now in slot k, every other remaining slot as it was
SwapRemoved(old, new, k) ==
    /\ k < Len(old)
    /\ Len(new) = Len(old) - 1
    /\ \A idx \in 0..(Len(new) - 1) :
          new[idx + 1] = IF idx = k THEN old[Len(old)] ELSE old[idx + 1]

\* a step that removes the voice in slot k of the host's list of active voices
IsRemoveVoice(k) ==
    /\ cursor = -1 /\ ~panicked
    /\ k < Len(voices)
    /\ Len(voices') = Len(voices) - 1
    /\ SwapRemoved(voices, voices', k)

C15_Step ==
    \A k \in 0..(MaxVoices - 1) : IsRemoveVoice(k) =>
        /\ ~panicked'
        /\ Len(schedule'.nodes) = Len(schedule.nodes)
        /\ \A n \in 1..Len(schedule.nodes) :
              /\ SwapRemoved(schedule.nodes[n].sample_buffer,
                             schedule'.nodes[n].sample_buffer, k)
              /\ SwapRemoved(schedule.nodes[n].processor.voices,
                             schedule'.nodes[n].processor.voices, k)

\* C15: remove_voice(k) with k below the voice count leaves, in every node's
\* buffer, the last sample in slot k, every other remaining slot as it was and
\* one slot fewer, and is forwarded to every node's processor.
C15_VoiceSwapRemoved == [][C15_Step]_vars

\* --------------------------------------------- smoothers: what claims speak of

\* the value the smoother the host drives is at
Current == get_current(smoother)

\* set_target(T, n) was the latest call to set the smoother
Ramping == ramp.op = "set_target"

\* and since then it was ticked one sample at a time
SingleTicks == Ramping /\ ramp.single

\* |a - b|
Distance(a, b) == f32_abs(f32_sub(a, b))

\* --------------------------------------------------------------------- C16
\* C16: for a Bounded smoother, after set_target(T, n), once n samples in total
\* have been ticked, by tick(k) or by tick1, current is exactly T whatever is
\* ticked after, and the remaining time t is never below zero.
C16_BoundedStopsAtTarget ==
    smoother.kind = "Bounded" =>
        /\ ~f32_lt(smoother.t, ZERO)
        /\ (Ramping /\ ramp.ticked >= ramp.n) => Current = ramp.target

\* --------------------------------------------------------------------- C17
\* 1e-5 * max(|T|, 1)
RampTolerance(T) ==
    LET size == IF f32_lt(f32_abs(T), ONE) THEN ONE ELSE f32_abs(T)
    IN  f32_mul(f32_of(10995116, -40), size)

\* C17: for a LinearSmoother, or a LogSmoother with current > 0 and T > 0, after
\* set_target(T, n) with n >= 1 and exactly n single-sample ticks, current is
\* within 1e-5 * max(|T|, 1) of T.
C17_RampEndsAtTarget ==
    ( /\ smoother.kind \in {"LinearSmoother", "LogSmoother"}
      /\ SingleTicks
      /\ ramp.ticked = ramp.n
      /\ smoother.kind = "LogSmoother" => f32_lt(ZERO, ramp.start) /\ f32_lt(ZERO, ramp.target) )
    => f32_lt(Distance(Current, ramp.target), RampTolerance(ramp.target))

\* --------------------------------------------------------------------- C18
\* two f32 that rounding could tell apart: equal, or within a thousandth of the
\* larger
Close(a, b) ==
    \/ a = b
    \/ /\ is_finite(a) /\ is_finite(b)
       /\ LET size == IF f32_lt(f32_abs(a), f32_abs(b)) THEN f32_abs(b) ELSE f32_abs(a)
          IN  f32_le(Distance(a, b), f32_mul(f32_of(8589935, -33), size))

\* two states of one smoother with every field close
RECURSIVE SameState(_, _)
SameState(s1, s2) ==
    CASE s1.kind = "LogSmoother"    -> Close(s1.factor, s2.factor) /\ Close(s1.value, s2.value)
      [] s1.kind = "LinearSmoother" -> Close(s1.increment, s2.increment) /\ Close(s1.value, s2.value)
      [] s1.kind = "ExpSmoother"    -> /\ Close(s1.alpha, s2.alpha)
                                       /\ Close(s1.target, s2.target)
                                       /\ Close(s1.current, s2.current)
      [] s1.kind = "Bounded"        -> Close(s1.t, s2.t) /\ SameState(s1.smoother, s2.smoother)

\* the states k consecutive calls of tick1 can leave a smoother in
RECURSIVE tick1_times(_, _)
tick1_times(states, k) ==
    IF k = 0 THEN states ELSE tick1_times(UNION {tick1(s) : s \in states}, k - 1)

\* C18: for every smoother variant and every k >= 0, tick(k) leaves the smoother
\* in the same state as k consecutive tick1, up to floating-point rounding.
C18_TickIsRepeatedTick1 ==
    smoother # NoSmoother =>
        \A k \in 0..MaxTickLen :
            /\ \A s1 \in tick(smoother, Samples(k)) :
                    \E s2 \in tick1_times({smoother}, k) : SameState(s1, s2)
            /\ \A s2 \in tick1_times({smoother}, k) :
                    \E s1 \in tick(smoother, Samples(k)) : SameState(s1, s2)

\* --------------------------------------------------------------------- C19
\* b lies between a and c, ends included
Between(a, b, c) == (f32_le(a, b) /\ f32_le(b, c)) \/ (f32_le(c, b) /\ f32_le(b, a))

\* C19: for an ExpSmoother at s, after set_target(T, n) with n >= 1 and exactly
\* n ticks, |current - T| <= 0.001 * |T - s|, and on the way current never
\* moves past T.
C19_ExpReachesTarget ==
    (smoother.kind = "ExpSmoother" /\ SingleTicks /\ ramp.ticked <= ramp.n) =>
        /\ Between(ramp.start, Current, ramp.target)
        /\ ramp.ticked = ramp.n =>
                f32_le(Distance(Current, ramp.target),
                       f32_mul(f32_of(8589935, -33), Distance(ramp.target, ramp.start)))

\* --------------------------------------------------------------------- C20
\* C20: for every smoother variant, after set_val_instantly(v) get_current()
\* returns v, and keeps returning v whatever is ticked, until the next
\* set_target.
C20_SetInstantlyHolds ==
    ramp.op = "set_val_instantly" => Current = ramp.target

\* ---------------------------------------------- filters: what claims speak of
\* the values are the same number (0.0 and -0.0 are)
Equal(a, b) == a = b \/ (is_zero(a) /\ is_zero(b))

\* x1 + ... + xn, added in f32 from the left
Sum(xs) ==
    LET S[n \in 0..Len(xs)] == IF n = 0 THEN f32_zero ELSE f32_add(S[n - 1], xs[n])
    IN  S[Len(xs)]

\* all but the last
Front(xs) == SubSeq(xs, 1, Len(xs) - 1)

Twice(a) == f32_mul(f32_of(2, 0), a)

\* --------------------------------------------------------------------- C21
\* C21: Integrator.tick(x) returns y = x + s and sets the state to s' = y + x;
\* hence after a reset followed by the inputs x1..xn the state is 2*(x1+...+xn)
\* and the n-th output is xn + 2*(x1+...+x(n-1)).
C21_IntegratorTick ==
    (filter.kind = "Integrator" /\ fed.op = "tick") =>
        LET x == fed.since[Len(fed.since)]
        IN  /\ fed.out = f32_add(x, fed.before.s)
            /\ filter.s = f32_add(fed.out, x)
            /\ Equal(filter.s, Twice(Sum(fed.since)))
            /\ Equal(fed.out, f32_add(x, Twice(Sum(Front(fed.since)))))

\* three samples, not all the same, have been ticked since a reset
C21_Witness ==
    /\ filter.kind = "Integrator"
    /\ fed.op = "tick"
    /\ Len(fed.since) = 3
    /\ fed.since[1] # fed.since[2]
    /\ ~is_zero(filter.s)

\* --------------------------------------------------------------------- C22
\* C22: a new Integrator has state 0; after reset(), get_current() returns
\* exactly 0 whatever ticks preceded it; and get_current() never changes the
\* state.
C22_IntegratorReset ==
    filter.kind = "Integrator" =>
        /\ fed.op = "default" => filter.s = f32_zero
        /\ fed.op = "reset" => Integrator_get_current(filter) = f32_zero
        /\ fed.op = "get_current" =>
            /\ filter = fed.before
            /\ fed.out = filter.s
            /\ fed.since = <<>> => fed.out = f32_zero

\* get_current() after a reset() that cleared a state that was not zero
C22_Witness ==
    /\ filter.kind = "Integrator"
    /\ fed.op = "get_current"
    /\ fed.since = <<>>
    /\ fed.cleared

\* --------------------------------------------------------------------- C23
\* the cutoff gain G the claim gives for a shape, and the feedback coefficient
\* G / (1 + G)
ShelfG(mode, w_c, gain) ==
    CASE mode = "LSH" -> f32_div(OnePole_g(w_c), f32_sqrt(gain))
      [] mode = "HSH" -> f32_mul(OnePole_g(w_c), f32_sqrt(gain))
      [] OTHER -> OnePole_g(w_c)

\* C23: for the one-pole filter, each immediate parameter setter and its
\* *_smoothed twin aim the coefficients at the same values for the same
\* (w_c, gain): set_params_low_shelving sets g1 to G/(1+G) with
\* G = g(w_c)/sqrt(gain), set_params_high_shelving to G/(1+G) with
\* G = g(w_c)*sqrt(gain), and both set k to gain.
C23_SettersAgree ==
    (filter.kind = "OnePole" /\ fed.op = "set") =>
        LET a    == fed.args
            G    == ShelfG(a.mode, a.w_c, a.gain)
            twin == OnePole_get_update_function(a.mode, ~a.smoothed, a.w_c, a.gain,
                                                f32_of(1, -1))
        IN  /\ fed.aim.g1 = f32_div(G, f32_add(ONE, G))
            /\ fed.aim.k = a.gain
            /\ fed.aim.g1 = twin.g1
            /\ fed.aim.k = twin.k
            /\ ~a.smoothed => (filter.g1.value = fed.aim.g1 /\ filter.k.value = fed.aim.k)

\* --------------------------------------------------------------------- C24
\* C24: reset() on a filter changes integrator state only: OnePole.reset
\* zeroes its one integrator and SVF.reset zeroes both integrators, while the
\* coefficient smoothers (current value and ramp) and the latched values x, lp,
\* hp, bp are left unchanged; the output getters change no state at all.
C24_ResetFrame ==
    /\ (filter.kind = "OnePole" /\ fed.op = "reset") =>
        /\ filter.s.s = f32_zero
        /\ filter.g1 = fed.before.g1
        /\ filter.k = fed.before.k
        /\ filter.lp = fed.before.lp
        /\ filter.x = fed.before.x
    /\ (filter.kind = "SVF" /\ fed.op = "reset") =>
        /\ filter.s[1].s = f32_zero
        /\ filter.s[2].s = f32_zero
        /\ filter.g = fed.before.g
        /\ filter.r = fed.before.r
        /\ filter.k = fed.before.k
        /\ filter.x = fed.before.x
        /\ filter.hp = fed.before.hp
        /\ filter.bp = fed.before.bp
        /\ filter.lp = fed.before.lp
    /\ (filter.kind \in {"OnePole", "SVF"} /\ fed.op = "get_output") => filter = fed.before

\* a reset of an SVF whose integrators both held state, with a ramp set on its
\* smoothers and outputs latched
C24_Witness ==
    /\ filter.kind = "SVF"
    /\ fed.op = "reset"
    /\ ~is_zero(fed.before.s[1].s)
    /\ ~is_zero(fed.before.s[2].s)
    /\ fed.before.g.factor # ONE
    /\ ~is_zero(filter.lp)
    /\ ~is_zero(filter.bp)

\* --------------------------------------------------------------------- C25
\* floor(log2(x)) of a positive normal x = m * 2^e, 2^23 <= m < 2^24
FloorLog2(x) == x.e + MANTISSA_BITS

\* C25: ilog2f(x) returns floor(log2(x)) as a signed integer for every
\* positive, finite, normal f32 x, including 0 < x < 1 where the result is
\* negative, and ilog2f(fexp2i(i)) = i for every -126 <= i <= 127.
C25_Ilog2fFloor ==
    applied.fn = "ilog2f" =>
        /\ applied.ret = FloorLog2(applied.args[1])
        /\ \A i \in -126..127 : applied.args[1] = fexp2i(i) => applied.ret = i

\* --------------------------------------------------------------------- C26
\* a*mu^3 + b*mu^2 + c*mu + y1 with the coefficients the claim gives, on f32
Bourke(y0, y1, y2, y3, mu) ==
    LET a   == f32_add(f32_sub(f32_sub(y3, y2), y0), y1)
        b   == f32_sub(f32_sub(y0, y1), a)
        c   == f32_sub(y2, y0)
        mu2 == f32_mul(mu, mu)
    IN  f32_add(f32_add(f32_add(f32_mul(f32_mul(a, mu), mu2), f32_mul(b, mu2)),
                        f32_mul(c, mu)),
                y1)

\* C26: cubic_interp(y0, y1, y2, y3, mu) equals a*mu^3 + b*mu^2 + c*mu + y1 with
\* a = y3-y2-y0+y1, b = y0-y1-a, c = y2-y0; in particular it returns y1 at
\* mu = 0 and y2 at mu = 1.
C26_CubicInterp ==
    applied.fn = "cubic_interp" =>
        LET y == applied.args
        IN  /\ Equal(applied.ret, Bourke(y[1], y[2], y[3], y[4], y[5]))
            /\ y[5] = f32_zero => Equal(applied.ret, y[2])
            /\ y[5] = ONE => Equal(applied.ret, y[3])

\* --------------------------------------------------------------------- C27
\* the id of the node edge k of node n (1-based) points at
TargetId(nodes, n, k) == nodes[nodes[n].edges[k].index + 1].id

\* C27: top_level_insert places the new node at index 0 with no edges, moves
\* every existing node up by one index, and rewrites every existing edge
\* (Normal and Feedback) so that it still points at the same node; the node
\* order remains a topological sort of the Normal edges.
C27_Step ==
    result'.op = "top_level_insert" =>
        /\ Len(ordered_nodes') = Len(ordered_nodes) + 1
        /\ ordered_nodes'[1] = [id |-> result'.from_id, edges |-> <<>>]
        /\ result'.from_id \notin NodeIds(ordered_nodes)
        /\ \A n \in 1..Len(ordered_nodes) :
            /\ ordered_nodes'[n + 1].id = ordered_nodes[n].id
            /\ Len(ordered_nodes'[n + 1].edges) = Len(ordered_nodes[n].edges)
            /\ \A k \in 1..Len(ordered_nodes[n].edges) :
                /\ ordered_nodes'[n + 1].edges[k].kind = ordered_nodes[n].edges[k].kind
                /\ TargetId(ordered_nodes', n + 1, k) = TargetId(ordered_nodes, n, k)
        /\ \A uv \in EdgePairs(ordered_nodes', {"Normal"}) : uv[1] < uv[2]

C27_InsertShifts == [][C27_Step]_vars

\* a node has just been inserted into a graph that holds a Normal and a
\* Feedback edge
C27_Witness ==
    /\ result.op = "top_level_insert"
    /\ EdgePairs(ordered_nodes, {"Normal"}) # {}
    /\ EdgePairs(ordered_nodes, {"Feedback"}) # {}

\* --------------------------------------------------------------------- C28
\* indices is a permutation of 0..len-1
IsPermutation(indices) ==
    /\ \A k \in 1..Len(indices) : indices[k] \in 0..(Len(indices) - 1)
    /\ \A a, b \in 1..Len(indices) : indices[a] = indices[b] => a = b

\* C28: permute(slice, indices), for indices a permutation of 0..len-1 of the
\* same length as slice, terminates with slice[k] equal to the old
\* slice[indices[k]] for every k and with indices overwritten by the identity;
\* it panics instead of permuting when the lengths differ or indices has a
\* duplicate or out-of-range entry.
C28_PermuteGathers ==
    applied.fn = "permute" =>
        LET slice   == applied.args[1]
            indices == applied.args[2]
            ret     == applied.ret
        IN  IF Len(slice) = Len(indices) /\ IsPermutation(indices)
            THEN /\ ~ret.panic
                 /\ Len(ret.slice) = Len(slice)
                 /\ \A k \in 1..Len(slice) : ret.slice[k] = slice[indices[k] + 1]
                 /\ ret.indices = Vec([k \in 1..Len(indices) |-> k - 1])
            ELSE ret.panic /\ ret.slice = slice

\* a permutation of three payloads that moves all of them has been applied
C28_Witness ==
    /\ applied.fn = "permute"
    /\ ~applied.ret.panic
    /\ Len(applied.args[1]) = 3
    /\ \A k \in 1..3 : applied.args[2][k] # k - 1

\* --------------------------------------------------------------------- C29
C29_Bounded ==
    \A n \in 1..Len(schedule.nodes) : Len(schedule.nodes[n].sample_buffer) <= Capacity

\* a step add_voice on a schedule that has nodes, while 16 voices are active; a
\* step remove_voice(k) with k not below the voice count (it keeps the host's
\* voices, and changes the schedule only by a panic)
C29_Step ==
    /\ (added' = added + 1 /\ Len(voices) = Capacity /\ schedule.nodes # <<>>) =>
        /\ panicked'
        /\ \A n \in 1..Len(schedule'.nodes) :
            Len(schedule'.nodes[n].sample_buffer) = Capacity
    /\ (added' = added /\ voices' = voices /\ ~panicked
            /\ Len(schedule'.nodes) = Len(schedule.nodes)) =>
        /\ panicked'
        /\ schedule' = schedule

\* C29: no schedule node's sample buffer ever holds more than 16 voices:
\* add_voice called while 16 voices are active aborts with a panic and leaves
\* every node's buffer at length 16, and remove_voice(k) with k not below the
\* voice count panics without changing any buffer.
C29_BuffersBounded == []C29_Bounded /\ [][C29_Step]_vars

\* --------------------------------------------------------------------- C30
\* the edges a step adds, as triples of ids and kind
AddedEdges == IdEdges(ordered_nodes') \ IdEdges(ordered_nodes)

C30_Step ==
    /\ IdEdges(ordered_nodes) \subseteq IdEdges(ordered_nodes')
    /\ EdgeCount(ordered_nodes') >= EdgeCount(ordered_nodes)
    /\ result'.op = "top_level_insert" => AddedEdges = {}
    /\ result'.op = "connect" =>
        /\ AddedEdges \subseteq {<<result'.from_id, result'.to_id, kind>> :
                                    kind \in {"Normal", "Feedback"}}
        /\ Cardinality(AddedEdges) <= 1
        /\ EdgeCount(ordered_nodes') = EdgeCount(ordered_nodes) + Cardinality(AddedEdges)

\* C30: an edge's kind is fixed once the connect that added it returns: no
\* later insert or connect demotes an existing Normal edge or promotes a
\* Feedback edge, and edges are never removed; within a connect only the edge
\* added by that call can become Feedback.
C30_KindFixed == [][C30_Step]_vars

\* a connect has just stored its edge as Feedback in a graph that already held
\* two Normal edges and a Feedback edge
C30_Witness ==
    /\ result.op = "connect"
    /\ result.ret.some /\ ~result.ret.has_perm
    /\ Cardinality(EdgePairs(ordered_nodes, {"Normal"})) >= 2
    /\ Cardinality(EdgePairs(ordered_nodes, {"Feedback"})) >= 2

====
